---- MODULE Spec2Model ----
(***************************************************************************)
(* Model of mapchete.commands.execute() (src/mapchete/commands/_execute.py)*)
(* The job lifecycle is a sequential program; every statement that talks   *)
(* to the observers, to the configuration, to the executor or to the       *)
(* computation is one action.  The collaborators that are not part of the  *)
(* function (observers, task counting, executor_getter, mp.compute) are    *)
(* the environment: each call either succeeds or raises an exception.      *)
(***************************************************************************)
EXTENDS Integers, Sequences, FiniteSets, TLC

\* ---------------------------------------------------------------- bounds
MaxRetries == 2
NegRetries == 2
MaxPreprocessing == 1
MaxTiles == 2
MaxWorkers == 2
\* cap of the attempt counter; it only binds when retries is negative
MaxAttempts == MaxRetries + 2
\* zoom levels of the pyramid are 0..MaxZoom
MaxZoom == 2
\* dependency keys have at most MaxKeyLen pieces
MaxKeyLen == 3
\* highest coordinate of the bounds given to Task.__init__
MaxCoord == 2
\* most items in the list given to TileTaskBatch.__init__
MaxItems == 2
\* most columns and most rows of the raster given to get_best_zoom_level
MaxSide == 2
\* most work tiles of the command-line runner
MaxWorkTiles == 2
\* highest column of a work tile
MaxCol == 1
\* highest zoom of a tile batch handed to to_dask_collection
MaxBatchZoom == 1
\* highest tile index of the window of the pyramid that is looked at
MaxTileIdx == 3
\* tile batches handed to to_dask_collection
MaxTileBatches == 2
\* tasks of all batches handed to to_dask_collection
MaxGraphTasks == 5
\* batches the generator of a Tasks container yields
MaxGenerated == 3
\* tasks of one batch of a Tasks container
MaxBatchLen == 1
\* calls made on one Tasks container
MaxCalls == 3

\* ----------------------------------------------------------- value domains
\* Python None
NULL == "NULL"

\* enums.Status
Status ==
    {"parsing", "initializing", "running", "retrying", "post_processing",
     "done", "cancelled", "failed"}

\* enums.Concurrency
Concurrency == {"none", "threads", "processes", "dask"}

\* An exception is described by who raised it, by the two isinstance tests
\* execute() applies to it (cancel_on_exception, retry_on_exception) and by
\* whether it was raised while another exception was being handled
\* (__context__ is set).
NoExc == [src |-> "none", cancel |-> FALSE, retry |-> FALSE, context |-> FALSE]

Exceptions(src, context) ==
    [src : {src}, cancel : BOOLEAN, retry : BOOLEAN, context : {context}]

\* types.Progress
NoProgress == [current |-> -1, total |-> -1]

Progress(current, total) == [current |-> current, total |-> total]

NoExecutor == [concurrency |-> "no executor"]

\* ZoomLevels value, or None
ZoomLevels(zooms) == [none |-> FALSE, zooms |-> zooms]

NoneLevels == [none |-> TRUE, zooms |-> {}]

\* config.baselevels: a dict with zooms and the two resampling methods, an
\* empty dict when no baselevels are configured, or None
Baselevels(zooms, lower, higher) ==
    [none |-> FALSE, zooms |-> zooms, lower |-> lower, higher |-> higher]

EmptyDict == [none |-> FALSE, zooms |-> {}, lower |-> NULL, higher |-> NULL]

NoneDict == [none |-> TRUE, zooms |-> {}, lower |-> NULL, higher |-> NULL]

\* TaskInfo(output, processed, tile); tile is given by its zoom
TaskInfo(output, zoom) ==
    [output |-> output, processed |-> TRUE, tile |-> zoom]

NoInfo == [output |-> NULL, processed |-> FALSE, tile |-> -1]

\* what the tile task wrapper returned ("empty" or a TaskInfo) or raised
NoOutcome == [kind |-> "none", value |-> NULL, info |-> NoInfo]

Returned(value, info) == [kind |-> "return", value |-> value, info |-> info]

Raised(e) == [kind |-> "raise", value |-> e, info |-> NoInfo]

\* what a tile task run did
NoEffects ==
    [process_called |-> FALSE,
     process_did |-> [kind |-> "none", value |-> NULL],
     read_parent |-> FALSE,
     read_children |-> FALSE,
     resampling |-> NULL,
     attached |-> {}]

\* an argument or attribute that is None
NoneValue == [is |-> "None", kind |-> NULL, box |-> <<>>]

\* previous_batch = None in to_dask_collection
NoBatch == [id |-> NULL, kind |-> "none", zoom |-> -1, tasks |-> {}]

\* a batch generator: the batches it yields, then it ends or raises
Generator(items, raises) == [items |-> items, raises |-> raises]

\* a generator that has ended (or raised): it yields nothing more
Exhausted == Generator(<<>>, FALSE)

\* no call made on the Tasks container yet
NoCall == [op |-> "none", raised |-> FALSE, value |-> <<>>, len |-> 0]

VARIABLES
    pc,             \* position in execute()
    flow,           \* how control leaves the enclosing with-blocks
    exc,            \* exception in flight (or propagated out of execute)
    retries0,       \* argument retries
    concurrency0,   \* argument concurrency
    retries,        \* local retries
    attempt,        \* local attempt
    total_tasks,    \* local total_tasks
    ii,             \* loop index of the result loop
    concurrency,    \* local concurrency
    dask,           \* dask_scheduler or dask_client given
    workers,        \* local workers
    executor,       \* executor held by the with-block
    acquired,       \* number of executors entered
    released,       \* number of executors exited
    mpOpen,         \* mapchete.open() context held
    statuses,       \* statuses passed to all_observers.notify, in order
    progress,       \* last progress passed to all_observers.notify
    delivered       \* task_result notifications of the current attempt

\* state of one TileTask run through _execute_tile_task_wrapper
VARIABLES
    task,           \* the TileTask object
    dependencies,   \* keyword argument dependencies, in dict order
    tpc,            \* position in the wrapper / TileTask.execute / _execute
    di,             \* index of the dependency loop
    texc,           \* exception in flight in the tile task
    process_output, \* value returned by _execute
    outcome,        \* what the wrapper returned or raised
    effects         \* what the run did: reads, resampling, attachments

tileVars ==
    <<task, dependencies, tpc, di, texc, process_output, outcome, effects>>

\* state of to_dask_collection() and of the graph it hands to dask
VARIABLES
    batches,        \* argument batches: the batches the iterator yields
    baselevels,     \* config.baselevels of the tile tasks of the batches
    gpc,            \* position in to_dask_collection / graph handed over
    bi,             \* index of the batch the outer loop is at
    tasks,          \* local tasks: the nodes with their dependencies
    previous_batch, \* local previous_batch
    running,        \* nodes dask has started and not finished
    results         \* nodes dask has finished, with what they returned

graphVars ==
    <<batches, baselevels, gpc, bi, tasks, previous_batch, running, results>>

\* state of one Tasks container and of its callers
VARIABLES
    _task_batches_generator, \* what the generator has still to yield
    _preprocessing_batches,  \* attribute _preprocessing_batches
    _tile_batches,           \* attribute _tile_batches
    materialized,            \* attribute materialized
    produced,                \* batches the generator has yielded so far
    iterations,              \* number of for-loops run over the generator
    calls,                   \* number of calls made on the container
    returned                 \* what the last call returned or raised

tasksVars ==
    <<_task_batches_generator, _preprocessing_batches, _tile_batches,
      materialized, produced, iterations, calls, returned>>

\* state of one call of Task.__init__
VARIABLES
    geometry,       \* argument geometry
    bounds,         \* argument bounds
    self_geometry,  \* attribute geometry
    self_bounds,    \* attribute bounds
    constructed     \* how the constructor ended

ctorVars == <<geometry, bounds, self_geometry, self_bounds, constructed>>

\* state of one TileTaskBatch construction and one intersection() call
VARIABLES
    tasks_arg,      \* argument tasks of TileTaskBatch.__init__
    vi,             \* position of _validate in tasks_arg
    _tp,            \* self._tp (NULL is None)
    _zoom,          \* self._zoom (-1 is None)
    self_tasks,     \* self.tasks: the (tile, TileTask) pairs of the dict
    batch_bounds,   \* self.bounds, in tiles of the batch zoom (<<>> is unset)
    built,          \* "no", "yes" or the exception of the constructor
    other_arg,      \* argument of intersection()
    found_tasks     \* what intersection() returned or raised

batchVars ==
    <<tasks_arg, vi, _tp, _zoom, self_tasks, batch_bounds, built, other_arg,
      found_tasks>>

\* state of one run of the legacy command-line runner
VARIABLES
    work_tiles,     \* the list work_tiles: the column of every tile
    cpus,           \* cpu_count(): the size of the pool
    calls_state,    \* per work tile: where its worker() call stands
    ready,          \* results the pool holds for imap_unordered
    counter,        \* local counter of main()
    log,            \* the outputs main() took, in order
    pool,           \* the pool: "open", "closed" or "joined"
    mpc,            \* position in main()
    mexc            \* exception in flight in main()

cliVars ==
    <<work_tiles, cpus, calls_state, ready, counter, log, pool, mpc, mexc>>

\* state of one call of get_best_zoom_level
VARIABLES
    x_dif,          \* local x_dif, in pixel sizes of the deepest zoom tested
    y_dif,          \* local y_dif, in the same unit
    width,          \* src.width
    height,         \* src.height
    avg_resolution, \* local avg_resolution, a fraction <<num, den>>
    loop_zoom,      \* loop variable zoom
    best_zoom,      \* what the call returned or raised
    zpc             \* position in get_best_zoom_level

zoomVars ==
    <<x_dif, y_dif, width, height, avg_resolution, loop_zoom, best_zoom, zpc>>

\* state of one comparison of the two ways a preprocessing result is
\* attached to an input
VARIABLES
    self_input,     \* the input keys of the task's inputs
    dep_key,        \* the dependency key
    by_method,      \* what set_preprocessing_task_result(dep_key, ...) did
    by_loop,        \* what the dependency loop of _execute did with dep_key
    apc             \* which of the two have run

attachVars == <<self_input, dep_key, by_method, by_loop, apc>>

moreVars == <<ctorVars, batchVars, cliVars, zoomVars, attachVars>>

\* variables of the other specifications, untouched by execute()
others == <<tileVars, graphVars, tasksVars, moreVars>>

config == <<retries0, concurrency0, dask, workers>>
locals == <<retries, attempt, total_tasks, ii, concurrency>>
resources == <<executor, acquired, released, mpOpen>>
observed == <<statuses, progress, delivered>>
execVars == <<pc, flow, exc, config, locals, resources, observed>>
vars == <<execVars, others>>

\* ------------------------------------------------------------- helpers
Last(s) == s[Len(s)]

Count(s, x) == Cardinality({i \in 1..Len(s) : s[i] = x})

\* --------------------------------------------------- exception routing
\* variant of RaiseTarget: an exception that leaves the try statement skips
\* the executor's __exit__ (executor used without a with-block)
RaiseTargetLeak(e, inTry) ==
    IF inTry /\ e.cancel THEN "except_cancel"
    ELSE IF inTry /\ e.retry THEN "except_retry"
    ELSE IF mpOpen THEN "exit_mp"
    ELSE "raised"

\* variant of RaiseTarget: the except clause of the retry classes comes
\* before the one of the cancel class
RaiseTargetRetryFirst(e, inTry) ==
    IF inTry /\ e.retry THEN "except_retry"
    ELSE IF inTry /\ e.cancel THEN "except_cancel"
    ELSE IF executor # NoExecutor THEN "exit_executor"
    ELSE IF mpOpen THEN "exit_mp"
    ELSE "raised"

\* Where an exception raised at a statement continues.  inTry: the statement
\* is inside the try block of the result loop.
RaiseTarget(e, inTry) ==
    IF inTry /\ e.cancel THEN "except_cancel"
    ELSE IF inTry /\ e.retry THEN "except_retry"
    ELSE IF executor # NoExecutor THEN "exit_executor"
    ELSE IF mpOpen THEN "exit_mp"
    ELSE "raised"

Raise(e, inTry) ==
    /\ exc' = e
    /\ pc' = RaiseTarget(e, inTry)
    /\ flow' = IF RaiseTarget(e, inTry) \in {"except_cancel", "except_retry"}
               THEN flow ELSE "raise"

Goto(target) ==
    /\ pc' = target
    /\ UNCHANGED <<flow, exc>>

\* all_observers.notify(...): the notification is handed to the observers,
\* then either every observer returns or one of them raises.
Notify(inTry, target) ==
    \/ Goto(target)
    \/ \E e \in Exceptions("observer", FALSE) : Raise(e, inTry)

\* no tile task is under execution
TileIdle ==
    /\ task = [zoom |-> 0, skip |-> TRUE, config_zoom_levels |-> NoneLevels,
               config_baselevels |-> NoneDict, input |-> {}, mode |-> NULL]
    /\ dependencies = <<>>
    /\ tpc = "idle"
    /\ di = 0
    /\ texc = NULL
    /\ process_output = NULL
    /\ outcome = NoOutcome
    /\ effects = NoEffects

\* execute() is not running
ExecuteIdle ==
    /\ pc = "idle"
    /\ flow = "normal"
    /\ exc = NoExc
    /\ retries0 = 0
    /\ concurrency0 = "processes"
    /\ retries = 0
    /\ attempt = 0
    /\ total_tasks = 0
    /\ ii = 0
    /\ concurrency = "processes"
    /\ dask = FALSE
    /\ workers = 1
    /\ executor = NoExecutor
    /\ acquired = 0
    /\ released = 0
    /\ mpOpen = FALSE
    /\ statuses = <<>>
    /\ progress = NoProgress
    /\ delivered = 0

\* to_dask_collection() is not running and no graph is with dask
GraphIdle ==
    /\ batches = <<>>
    /\ baselevels = EmptyDict
    /\ gpc = "idle"
    /\ bi = 0
    /\ tasks = {}
    /\ previous_batch = NoBatch
    /\ running = {}
    /\ results = {}

\* no Tasks container is in use
TasksIdle ==
    /\ _task_batches_generator = Exhausted
    /\ _preprocessing_batches = <<>>
    /\ _tile_batches = <<>>
    /\ materialized = FALSE
    /\ produced = <<>>
    /\ iterations = 0
    /\ calls = 0
    /\ returned = NoCall

\* no Task is under construction
CtorIdle ==
    /\ geometry = NoneValue
    /\ bounds = NoneValue
    /\ self_geometry = NoneValue
    /\ self_bounds = NoneValue
    /\ constructed = "idle"

\* no task given to intersection()
NoTask == [kind |-> "none", zoom |-> -1, idx |-> -1]

\* intersection() not called
NotCalled == [called |-> FALSE, raised |-> NULL, value |-> <<>>]

BatchIdle ==
    /\ tasks_arg = <<>>
    /\ vi = 0
    /\ _tp = NULL
    /\ _zoom = -1
    /\ self_tasks = {}
    /\ batch_bounds = <<>>
    /\ built = "idle"
    /\ other_arg = NoTask
    /\ found_tasks = NotCalled

CliIdle ==
    /\ work_tiles = <<>>
    /\ cpus = 0
    /\ calls_state = <<>>
    /\ ready = {}
    /\ counter = 0
    /\ log = <<>>
    /\ pool = "none"
    /\ mpc = "idle"
    /\ mexc = NULL

\* get_best_zoom_level has not ended
NoZoom == [kind |-> "none", value |-> -1]

ZoomIdle ==
    /\ x_dif = 0
    /\ y_dif = 0
    /\ width = 0
    /\ height = 0
    /\ avg_resolution = <<0, 1>>
    /\ loop_zoom = 0
    /\ best_zoom = NoZoom
    /\ zpc = "idle"

\* the code path has not run
NotRun == [raised |-> "not run", attached |-> {}]

AttachIdle ==
    /\ self_input = {}
    /\ dep_key = <<>>
    /\ by_method = NotRun
    /\ by_loop = NotRun
    /\ apc = "idle"

MoreIdle ==
    /\ CtorIdle
    /\ BatchIdle
    /\ CliIdle
    /\ ZoomIdle
    /\ AttachIdle

\* ------------------------------------------------------------------ Init
Init ==
    /\ pc = "start"
    /\ flow = "normal"
    /\ exc = NoExc
    /\ retries0 \in (0 - NegRetries)..MaxRetries
    /\ retries = retries0
    /\ attempt = 0
    /\ total_tasks = 0
    /\ ii = 0
    /\ concurrency0 \in Concurrency
    /\ concurrency = concurrency0
    /\ dask \in BOOLEAN
    /\ workers \in 1..MaxWorkers
    /\ executor = NoExecutor
    /\ acquired = 0
    /\ released = 0
    /\ mpOpen = FALSE
    /\ statuses = <<>>
    /\ progress = NoProgress
    /\ delivered = 0
    /\ TileIdle
    /\ GraphIdle
    /\ TasksIdle
    /\ MoreIdle

\* --------------------------------------------------------------- actions
\* line 110
NotifyParsing ==
    /\ pc = "start"
    /\ statuses' = Append(statuses, "parsing")
    /\ Notify(FALSE, "bounds")
    /\ UNCHANGED <<others, config, locals, resources, progress, delivered>>

\* lines 112-123: tile / bounds from the raw configuration
ParseBounds ==
    /\ pc = "bounds"
    /\ \/ Goto("open")
       \/ \E e \in Exceptions("env", FALSE) : Raise(e, FALSE)
    /\ UNCHANGED <<others, config, locals, resources, observed>>

\* lines 126-134
OpenMapchete ==
    /\ pc = "open"
    /\ \/ /\ mpOpen' = TRUE
          /\ attempt' = 0
          /\ Goto("while")
       \/ /\ \E e \in Exceptions("env", FALSE) : Raise(e, FALSE)
          /\ UNCHANGED <<mpOpen, attempt>>
    /\ UNCHANGED <<others, config, retries, total_tasks, ii, concurrency,
                   executor, acquired, released, observed>>

\* line 139: while retries + 1
LoopTest == retries + 1 # 0

\* lines 139-148: loop test true, attempt += 1, message on later attempts
BeginAttempt ==
    /\ pc = "while"
    /\ LoopTest
    /\ attempt < MaxAttempts
    /\ attempt' = attempt + 1
    /\ IF attempt' > 1 THEN Notify(FALSE, "initializing")
                       ELSE Goto("initializing")
    /\ UNCHANGED <<others, config, retries, total_tasks, ii, concurrency,
                   resources, observed>>

\* line 139: loop test false, control falls out of the loop
LoopExit ==
    /\ pc = "while"
    /\ ~LoopTest
    /\ Goto("exit_mp")
    /\ UNCHANGED <<others, config, locals, resources, observed>>

\* line 152
NotifyInitializing ==
    /\ pc = "initializing"
    /\ statuses' = Append(statuses, "initializing")
    /\ Notify(FALSE, "count")
    /\ UNCHANGED <<others, config, locals, resources, progress, delivered>>

\* lines 154-156
CountTasks ==
    /\ pc = "count"
    /\ \/ \E preprocessing_tasks \in 0..MaxPreprocessing,
             tiles_tasks \in 0..MaxTiles :
             /\ total_tasks' = preprocessing_tasks + tiles_tasks
             /\ Goto("counted")
       \/ /\ \E e \in Exceptions("env", FALSE) : Raise(e, FALSE)
          /\ UNCHANGED total_tasks
    /\ UNCHANGED <<others, config, retries, attempt, ii, concurrency,
                   resources, observed>>

\* variant of NotifyTaskCounts: the early return of line 160 is missing
NotifyTaskCountsNoEarlyReturn ==
    /\ pc = "counted"
    /\ Notify(FALSE, "select")
    /\ UNCHANGED <<others, config, locals, resources, observed>>

\* lines 157-160
NotifyTaskCounts ==
    /\ pc = "counted"
    /\ Notify(FALSE, IF total_tasks = 0 THEN "no_tasks" ELSE "select")
    /\ UNCHANGED <<others, config, locals, resources, observed>>

\* lines 160-162
NotifyDoneNoTasks ==
    /\ pc = "no_tasks"
    /\ statuses' = Append(statuses, "done")
    /\ \/ /\ pc' = "exit_mp"
          /\ flow' = "return"
          /\ UNCHANGED exc
       \/ \E e \in Exceptions("observer", FALSE) : Raise(e, FALSE)
    /\ UNCHANGED <<others, config, locals, resources, progress, delivered>>

\* variant of SelectedConcurrency: the single-task / single-worker test comes
\* before the dask test
SelectedConcurrencySequentialFirst ==
    IF total_tasks = 1 \/ workers = 1 THEN NULL
    ELSE IF dask \/ concurrency = "dask" THEN "dask"
    ELSE concurrency

\* variant of SelectedConcurrency: every attempt starts from the argument
SelectedConcurrencyFromArgument ==
    IF dask \/ concurrency0 = "dask" THEN "dask"
    ELSE IF total_tasks = 1 \/ workers = 1 THEN NULL
    ELSE concurrency0

\* lines 165-173
SelectedConcurrency ==
    IF dask \/ concurrency = "dask" THEN "dask"
    ELSE IF total_tasks = 1 \/ workers = 1 THEN NULL
    ELSE concurrency

\* lines 165-174
SelectBackend ==
    /\ pc = "select"
    /\ concurrency' = SelectedConcurrency
    /\ Notify(FALSE, "acquire")
    /\ UNCHANGED <<others, config, retries, attempt, total_tasks, ii,
                   resources, observed>>

\* lines 176-182: executor_getter(...).__enter__
AcquireExecutor ==
    /\ pc = "acquire"
    /\ \/ /\ executor' = [concurrency |-> concurrency]
          /\ acquired' = acquired + 1
          /\ Goto("running")
       \/ /\ \E e \in Exceptions("env", FALSE) : Raise(e, FALSE)
          /\ UNCHANGED <<executor, acquired>>
    /\ UNCHANGED <<others, config, locals, released, mpOpen, observed>>

\* lines 184-190: running notification, then the result loop is entered
NotifyRunning ==
    /\ pc = "running"
    /\ statuses' = Append(statuses, "running")
    /\ progress' = Progress(0, total_tasks)
    /\ ii' = 0
    /\ delivered' = 0
    /\ Notify(FALSE, "compute")
    /\ UNCHANGED <<others, config, retries, attempt, total_tasks, concurrency,
                   resources>>

\* lines 190-203: mp.compute() yields the next future
NextResult ==
    /\ pc = "compute"
    /\ ii < total_tasks
    /\ ii' = ii + 1
    /\ Goto("task_details")
    /\ UNCHANGED <<others, config, retries, attempt, total_tasks, concurrency,
                   resources, observed>>

\* lines 190-203: mp.compute() or TaskResult.from_future() raises
ComputeRaises ==
    /\ pc = "compute"
    /\ \E e \in Exceptions("task", FALSE) : Raise(e, TRUE)
    /\ UNCHANGED <<others, config, locals, resources, observed>>

\* lines 204-219
NotifyTaskDetails ==
    /\ pc = "task_details"
    /\ Notify(TRUE, "task_progress")
    /\ UNCHANGED <<others, config, locals, resources, observed>>

\* variant of NotifyTaskResult: enumerate() counts from 0
NotifyTaskResultFromZero ==
    /\ pc = "task_progress"
    /\ progress' = Progress(ii - 1, total_tasks)
    /\ delivered' = delivered + 1
    /\ Notify(TRUE, "compute")
    /\ UNCHANGED <<others, config, locals, resources, statuses>>

\* lines 220-223
NotifyTaskResult ==
    /\ pc = "task_progress"
    /\ progress' = Progress(ii, total_tasks)
    /\ delivered' = delivered + 1
    /\ Notify(TRUE, "compute")
    /\ UNCHANGED <<others, config, locals, resources, statuses>>

\* line 224: the computation is exhausted
ReturnAfterLoop ==
    /\ pc = "compute"
    /\ ii = total_tasks
    /\ pc' = "exit_executor"
    /\ flow' = "return"
    /\ UNCHANGED <<exc, others, config, locals, resources, observed>>

\* variant of HandleCancel: the bare raise of line 228 is missing, the
\* with-block is left normally and the loop continues
HandleCancelSwallows ==
    /\ pc = "except_cancel"
    /\ statuses' = Append(statuses, "cancelled")
    /\ \/ /\ pc' = "exit_executor"
          /\ flow' = "normal"
          /\ exc' = NoExc
       \/ \E e \in Exceptions("observer", TRUE) : Raise(e, FALSE)
    /\ UNCHANGED <<others, config, locals, resources, progress, delivered>>

\* lines 226-228
HandleCancel ==
    /\ pc = "except_cancel"
    /\ statuses' = Append(statuses, "cancelled")
    /\ \/ /\ pc' = "exit_executor"
          /\ flow' = "raise"
          /\ UNCHANGED exc
       \/ \E e \in Exceptions("observer", TRUE) : Raise(e, FALSE)
    /\ UNCHANGED <<others, config, locals, resources, progress, delivered>>

\* lines 230-233
HandleFailed ==
    /\ pc = "except_retry"
    /\ statuses' = Append(statuses, "failed")
    /\ \/ Goto("retry_check")
       \/ \E e \in Exceptions("observer", TRUE) : Raise(e, FALSE)
    /\ UNCHANGED <<others, config, locals, resources, progress, delivered>>

\* variant of RetriesLeft: the last retry is never granted
RetriesLeftOffByOne == retries > 1

\* line 234: if retries
RetriesLeft == retries # 0

\* variant of Retry: the attempt is rerun on the executor that is held
RetryOnSameExecutor ==
    /\ pc = "retry_check"
    /\ RetriesLeft
    /\ retries' = retries - 1
    /\ statuses' = Append(statuses, "retrying")
    /\ \/ /\ pc' = "running"
          /\ flow' = "normal"
          /\ exc' = NoExc
       \/ \E e \in Exceptions("observer", TRUE) : Raise(e, FALSE)
    /\ UNCHANGED <<others, config, attempt, total_tasks, ii, concurrency,
                   resources, progress, delivered>>

\* lines 234-236
Retry ==
    /\ pc = "retry_check"
    /\ RetriesLeft
    /\ retries' = retries - 1
    /\ statuses' = Append(statuses, "retrying")
    /\ \/ /\ pc' = "exit_executor"
          /\ flow' = "normal"
          /\ exc' = NoExc
       \/ \E e \in Exceptions("observer", TRUE) : Raise(e, FALSE)
    /\ UNCHANGED <<others, config, attempt, total_tasks, ii, concurrency,
                   resources, progress, delivered>>

\* lines 237-238
ReRaise ==
    /\ pc = "retry_check"
    /\ ~RetriesLeft
    /\ pc' = "exit_executor"
    /\ flow' = "raise"
    /\ UNCHANGED <<exc, others, config, locals, resources, observed>>

\* variant of ReleaseExecutor: leaving the with-block keeps the executor
ReleaseExecutorKeeps ==
    /\ pc = "exit_executor"
    /\ pc' = IF flow = "normal" THEN "while" ELSE "exit_mp"
    /\ UNCHANGED <<flow, exc, others, config, locals, resources, observed>>

\* line 176: executor_getter(...).__exit__
ReleaseExecutor ==
    /\ pc = "exit_executor"
    /\ executor' = NoExecutor
    /\ released' = released + 1
    /\ pc' = IF flow = "normal" THEN "while" ELSE "exit_mp"
    /\ UNCHANGED <<flow, exc, others, config, locals, acquired, mpOpen, observed>>

\* line 126: mapchete.open(...).__exit__
CloseMapchete ==
    /\ pc = "exit_mp"
    /\ mpOpen' = FALSE
    /\ pc' = IF flow = "raise" THEN "raised" ELSE "returned"
    /\ UNCHANGED <<flow, exc, others, config, locals, executor, acquired, released,
                   observed>>

Next ==
    \/ NotifyParsing
    \/ ParseBounds
    \/ OpenMapchete
    \/ BeginAttempt
    \/ LoopExit
    \/ NotifyInitializing
    \/ CountTasks
    \/ NotifyTaskCounts
    \/ NotifyDoneNoTasks
    \/ SelectBackend
    \/ AcquireExecutor
    \/ NotifyRunning
    \/ NextResult
    \/ ComputeRaises
    \/ NotifyTaskDetails
    \/ NotifyTaskResult
    \/ ReturnAfterLoop
    \/ HandleCancel
    \/ HandleFailed
    \/ Retry
    \/ ReRaise
    \/ ReleaseExecutor
    \/ CloseMapchete

Spec == Init /\ [][Next]_vars

Ended == pc \in {"returned", "raised"}

\* ------------------------------------------------------------ properties
InLoop == pc \in {"compute", "task_details", "task_progress"}

\* C1: a job whose task count is 0 emits exactly parsing, initializing, done
\* and returns; no executor is ever acquired.
C1_ZeroTasksDone ==
    /\ pc = "no_tasks" => executor = NoExecutor /\ acquired < attempt
    /\ (Ended /\ exc = NoExc /\ attempt = 1 /\ total_tasks = 0) =>
          /\ pc = "returned"
          /\ statuses = <<"parsing", "initializing", "done">>
          /\ acquired = 0

C1_Witness ==
    /\ pc = "returned"
    /\ retries0 >= 0
    /\ attempt = 1
    /\ total_tasks = 0
    /\ statuses = <<"parsing", "initializing", "done">>
    /\ acquired = 0

\* C2: a job with at least one task whose tasks all complete without an
\* exception ends with the status sequence parsing, initializing, running,
\* post_processing, done.
C2_NormalCompletionSequence ==
    (/\ pc = "returned"
     /\ retries0 >= 0
     /\ attempt = 1
     /\ total_tasks >= 1) =>
        statuses = <<"parsing", "initializing", "running",
                     "post_processing", "done">>

\* C3: with retries = k >= 0, a job whose attempts fail k' <= k times and
\* then succeed makes k'+1 attempts, emits retrying k' times and its last
\* status is done.
C3_RetryArithmetic ==
    (pc = "returned" /\ retries0 >= 0) =>
        /\ Count(statuses, "failed") <= retries0
        /\ attempt = Count(statuses, "failed") + 1
        /\ Count(statuses, "retrying") = Count(statuses, "failed")
        /\ Last(statuses) = "done"

\* C4: with retries = k >= 0, if every attempt raises a retry-eligible,
\* non-cancel exception during running, there are exactly k+1 attempts,
\* k+1 failed and k retrying statuses, the last status is failed and the
\* exception of the last attempt propagates.
C4_RetryExhaustion ==
    (/\ Ended
     /\ retries0 >= 0
     /\ exc # NoExc
     /\ ~exc.context
     /\ attempt >= 1
     /\ Count(statuses, "failed") = attempt) =>
        /\ pc = "raised"
        /\ exc.retry /\ ~exc.cancel
        /\ attempt = retries0 + 1
        /\ Count(statuses, "failed") = retries0 + 1
        /\ Count(statuses, "retrying") = retries0
        /\ Last(statuses) = "failed"

C4_Witness ==
    /\ pc = "raised"
    /\ retries0 = MaxRetries
    /\ exc.src = "task"
    /\ attempt = MaxRetries + 1
    /\ Count(statuses, "failed") = MaxRetries + 1
    /\ Count(statuses, "retrying") = MaxRetries

\* C5: a cancel-eligible exception raised while results are consumed makes
\* execute() emit cancelled exactly once; afterwards no status is emitted
\* and no attempt is started, whatever the remaining retries; the
\* exception propagates out of execute().
C5_CancelTerminal ==
    /\ [](Count(statuses, "cancelled") <= 1)
    /\ [][Count(statuses, "cancelled") = 1 =>
            /\ statuses' = statuses
            /\ attempt' = attempt
            /\ pc' \in {"exit_executor", "exit_mp", "raised"}
            /\ flow' = "raise"]_vars
    /\ []((Ended /\ exc.cancel /\ exc.src = "task") =>
            /\ pc = "raised"
            /\ Last(statuses) = "cancelled")

C5_Witness ==
    /\ pc = "raised"
    /\ exc.cancel
    /\ exc.src = "task"
    /\ retries > 0
    /\ Last(statuses) = "cancelled"
    /\ Count(statuses, "cancelled") = 1

\* C6: every executor acquired is released exactly once on every exit path
\* of its attempt; when execute() ends, releases equal acquisitions.
C6_ExecutorScoping ==
    /\ released <= acquired
    /\ acquired <= released + 1
    /\ (executor # NoExecutor) <=> (acquired = released + 1)
    /\ pc \in {"while", "initializing", "count", "counted", "no_tasks",
               "select", "acquire", "exit_mp"} => acquired = released
    /\ Ended => acquired = released

C6_Witness ==
    /\ pc = "raised"
    /\ Count(statuses, "retrying") >= 1
    /\ acquired >= 2
    /\ released = acquired

\* C7: a retry-eligible exception raised in any non-terminal state, also
\* in initializing (task counting, executor acquisition), makes execute()
\* emit failed, and retrying followed by a new attempt when retries remain:
\* a job that such an exception ends has emitted failed last and has no
\* retries left.
C7_FailedFromAnyState ==
    (/\ Ended
     /\ retries0 >= 0
     /\ attempt >= 1
     /\ exc.src = "env"
     /\ exc.retry /\ ~exc.cancel) =>
        /\ Last(statuses) = "failed"
        /\ retries = 0

\* C8: the last progress notification has current = total if and only if
\* the last status emitted is done (stated for the jobs that return and
\* have notified a progress).
C8_ProgressCompleteIffDone ==
    (pc = "returned" /\ retries0 >= 0 /\ progress # NoProgress) =>
        ((progress.current = progress.total) <=> (Last(statuses) = "done"))

\* C9: within an attempt every yielded result is passed to the observers
\* exactly once, with progress total = the attempt's task count and
\* current = the 1-based index of the completion; current grows by
\* exactly 1 per completion and never decreases within the attempt.
C9_ProgressPerResult ==
    /\ [](pc = "compute" =>
            /\ delivered = ii
            /\ progress = Progress(ii, total_tasks))
    /\ [](pc = "task_progress" => delivered = ii - 1)
    /\ [][delivered' = delivered + 1 =>
            /\ progress'.current = progress.current + 1
            /\ progress'.current = delivered'
            /\ progress'.total = total_tasks
            /\ progress'.total = progress.total]_vars
    /\ [][InLoop /\ InLoop' =>
            /\ progress'.current >= progress.current
            /\ total_tasks' = total_tasks]_vars

C9_Witness ==
    /\ pc = "compute"
    /\ attempt = 2
    /\ total_tasks = 2
    /\ delivered = 2
    /\ progress = Progress(2, 2)

\* C10: an observer that raises while being notified is fatal: the job is
\* not retried and the observer's exception ends the job.
C10_ObserverRaiseFatal ==
    [][exc.src = "observer" =>
        /\ attempt' = attempt
        /\ exc'.src = "observer"]_vars

TypeOK ==
    /\ pc \in {"start", "bounds", "open", "while", "initializing", "count",
               "counted", "no_tasks", "select", "acquire", "running",
               "compute", "task_details", "task_progress", "except_cancel",
               "except_retry", "retry_check", "exit_executor", "exit_mp",
               "returned", "raised"}
    /\ flow \in {"normal", "return", "raise"}
    /\ statuses \in Seq(Status)
    /\ attempt \in 0..MaxAttempts
    /\ total_tasks \in 0..(MaxPreprocessing + MaxTiles)
    /\ ii \in 0..(MaxPreprocessing + MaxTiles)
    /\ pc \in {"compute", "task_details", "task_progress"} => ii <= total_tasks
    /\ concurrency \in Concurrency \cup {NULL}
    /\ acquired \in Nat
    /\ released \in Nat
\* =========================================================================
\* TileTask (src/mapchete/processing/tasks.py)
\* =========================================================================

\* enums.ProcessingMode
ProcessingMode == {"continue", "readonly", "overwrite", "memory"}

\* A string is a sequence of pieces: ":" or a piece without a colon.
\* "tile_task" is the prefix default_tile_task_id gives to tile task ids.
Pieces == {"tile_task", "src1", "zzz", ":"}

Strings == UNION {[1..n -> Pieces] : n \in 0..MaxKeyLen}

\* str.startswith("tile_task")
StartsWithTileTask(str) == Len(str) >= 1 /\ str[1] = "tile_task"

\* ":" in str
HasColon(str) == \E i \in 1..Len(str) : str[i] = ":"

\* str.split(":")
RECURSIVE Split(_)
Split(str) ==
    IF ~HasColon(str) THEN <<str>>
    ELSE LET i == CHOOSE j \in 1..Len(str) :
                    str[j] = ":" /\ \A k \in 1..(j - 1) : str[k] # ":"
         IN  <<SubSeq(str, 1, i - 1)>> \o Split(SubSeq(str, i + 1, Len(str)))

\* ":".join(parts)
RECURSIVE Join(_)
Join(parts) ==
    IF Len(parts) = 0 THEN <<>>
    ELSE IF Len(parts) = 1 THEN parts[1]
    ELSE parts[1] \o <<":">> \o Join(Tail(parts))

Intervals == {lo..hi : lo \in 0..MaxZoom, hi \in 0..MaxZoom} \ {{}}

Min(S) == CHOOSE x \in S : \A y \in S : x <= y

Max(S) == CHOOSE x \in S : \A y \in S : x >= y

\* what TileTask.__init__ reads from the MapcheteConfig
Configs ==
    {c \in [zoom_levels : {ZoomLevels(z) : z \in Intervals},
            baselevels : {EmptyDict} \cup
                         {Baselevels(z, "bilinear", "nearest") :
                             z \in Intervals},
            mode : ProcessingMode,
            inputs : SUBSET {<<"src1">>}] :
        c.baselevels.zooms \subseteq c.zoom_levels.zooms}

\* lines 205-240: TileTask.__init__
TileTaskInit(zoom, cfg, skip) ==
    [zoom |-> zoom,
     skip |-> skip,
     config_zoom_levels |-> IF skip THEN NoneLevels ELSE cfg.zoom_levels,
     config_baselevels |-> IF skip THEN NoneDict ELSE cfg.baselevels,
     input |-> IF skip \/ zoom \notin cfg.zoom_levels.zooms
               THEN {} ELSE cfg.inputs,
     mode |-> IF skip THEN NULL ELSE cfg.mode]

\* the dependencies argument: no entry or one entry, given by its key
DependencyDicts == {<<>>} \cup {<<[key |-> k]>> : k \in Strings}

InitTile ==
    /\ ExecuteIdle
    /\ GraphIdle
    /\ TasksIdle
    /\ MoreIdle
    /\ \E zoom \in 0..MaxZoom, cfg \in Configs, skip \in BOOLEAN :
          task = TileTaskInit(zoom, cfg, skip)
    /\ dependencies \in DependencyDicts
    /\ tpc = "wrapper"
    /\ di = 0
    /\ texc = NULL
    /\ process_output = NULL
    /\ outcome = NoOutcome
    /\ effects = NoEffects

\* an exception raised inside task.execute() reaches the wrapper's except
TileRaise(e) ==
    /\ texc' = e
    /\ tpc' = "wrapper_except"

\* lines 185-187: the wrapper calls task.execute(**kwargs)
WrapperCall ==
    /\ tpc = "wrapper"
    /\ tpc' = "check_mode"
    /\ UNCHANGED <<execVars, graphVars, tasksVars, moreVars, task, dependencies, di, texc, process_output,
                   outcome, effects>>

\* lines 263-264
CheckMode ==
    /\ tpc = "check_mode"
    /\ IF task.mode \notin {"memory", "continue", "overwrite"}
       THEN TileRaise("ValueError")
       ELSE tpc' = "check_zoom" /\ UNCHANGED texc
    /\ UNCHANGED <<execVars, graphVars, tasksVars, moreVars, task, dependencies, di, process_output,
                   outcome, effects>>

\* variant of CheckZoom: the zoom is not looked up in the zoom levels
CheckZoomAnyZoom ==
    /\ tpc = "check_zoom"
    /\ IF task.config_zoom_levels.none
       THEN TileRaise("TypeError")
       ELSE tpc' = "_execute" /\ UNCHANGED texc
    /\ UNCHANGED <<execVars, graphVars, tasksVars, moreVars, task, dependencies, di, process_output,
                   outcome, effects>>

\* lines 266-269
CheckZoom ==
    /\ tpc = "check_zoom"
    /\ IF task.config_zoom_levels.none
       THEN TileRaise("TypeError")
       ELSE IF task.zoom \notin task.config_zoom_levels.zooms
       THEN TileRaise("MapcheteNodataTile")
       ELSE tpc' = "_execute" /\ UNCHANGED texc
    /\ UNCHANGED <<execVars, graphVars, tasksVars, moreVars, task, dependencies, di, process_output,
                   outcome, effects>>

\* bool(self.config_baselevels)
HasBaselevels(t) ==
    ~t.config_baselevels.none /\ t.config_baselevels # EmptyDict

\* variant of ExecutePath: the two interpolation branches are exchanged
ExecutePathSwapped(t) ==
    IF HasBaselevels(t) /\ t.zoom < Min(t.config_baselevels.zooms)
    THEN "interpolate_higher"
    ELSE IF HasBaselevels(t) /\ t.zoom > Max(t.config_baselevels.zooms)
    THEN "interpolate_lower"
    ELSE "attach"

\* lines 298-303: which part of _execute produces the data
ExecutePath(t) ==
    IF HasBaselevels(t) /\ t.zoom < Min(t.config_baselevels.zooms)
    THEN "interpolate_lower"
    ELSE IF HasBaselevels(t) /\ t.zoom > Max(t.config_baselevels.zooms)
    THEN "interpolate_higher"
    ELSE "attach"

\* lines 298-307
EnterExecute ==
    /\ tpc = "_execute"
    /\ tpc' = ExecutePath(task)
    /\ di' = 1
    /\ UNCHANGED <<execVars, graphVars, tasksVars, moreVars, task, dependencies, texc, process_output,
                   outcome, effects>>

\* lines 359-367, 410-411: _interpolate_from_baselevel("higher")
InterpolateHigher ==
    /\ tpc = "interpolate_higher"
    /\ effects' = [effects EXCEPT
                     !.read_parent = TRUE,
                     !.resampling = task.config_baselevels.higher]
    /\ process_output' = "data"
    /\ tpc' = "classify"
    /\ UNCHANGED <<execVars, graphVars, tasksVars, moreVars, task, dependencies, di, texc, outcome>>

\* lines 369-411: _interpolate_from_baselevel("lower")
InterpolateLower ==
    /\ tpc = "interpolate_lower"
    /\ effects' = [effects EXCEPT
                     !.read_children = TRUE,
                     !.resampling = task.config_baselevels.lower]
    /\ process_output' = "data"
    /\ tpc' = "classify"
    /\ UNCHANGED <<execVars, graphVars, tasksVars, moreVars, task, dependencies, di, texc, outcome>>

\* line 310: inp_key, task_key of a dependency key
InpKey(key) == Split(key)[1]

TaskKey(key) == Join(Tail(Split(key)))

\* variant of AttachDependency: a key that matches no input raises
AttachDependencyStrict ==
    /\ tpc = "attach"
    /\ di <= Len(dependencies)
    /\ LET key == dependencies[di].key IN
       IF StartsWithTileTask(key)
       THEN /\ di' = di + 1
            /\ UNCHANGED <<tpc, texc, effects>>
       ELSE IF TaskKey(key) = <<>> \/ InpKey(key) \notin task.input
       THEN /\ TileRaise("KeyError")
            /\ UNCHANGED <<di, effects>>
       ELSE /\ effects' = [effects EXCEPT !.attached =
                 @ \cup {<<InpKey(key), TaskKey(key)>>}]
            /\ di' = di + 1
            /\ UNCHANGED <<tpc, texc>>
    /\ UNCHANGED <<execVars, graphVars, tasksVars, moreVars, task, dependencies, process_output, outcome>>

\* lines 308-319: one iteration of the dependency loop
AttachDependency ==
    /\ tpc = "attach"
    /\ di <= Len(dependencies)
    /\ LET key == dependencies[di].key IN
       IF StartsWithTileTask(key)
       THEN /\ di' = di + 1
            /\ UNCHANGED <<tpc, texc, effects>>
       ELSE IF TaskKey(key) = <<>>
       THEN /\ TileRaise("KeyError")
            /\ UNCHANGED <<di, effects>>
       ELSE /\ effects' = [effects EXCEPT !.attached =
                 @ \cup {<<inp, TaskKey(key)>> :
                            inp \in {i \in task.input : i = InpKey(key)}}]
            /\ di' = di + 1
            /\ UNCHANGED <<tpc, texc>>
    /\ UNCHANGED <<execVars, graphVars, tasksVars, moreVars, task, dependencies, process_output, outcome>>

\* what the user process does: return a value or raise
ProcessReturns == {"data", "empty", NULL}

ProcessRaises == {"MapcheteNodataTile", "UserError"}

\* lines 321-337: the user process is called; both except clauses re-raise
CallProcess ==
    /\ tpc = "attach"
    /\ di > Len(dependencies)
    /\ \/ \E r \in ProcessReturns :
             /\ effects' = [effects EXCEPT
                              !.process_called = TRUE,
                              !.process_did = [kind |-> "return", value |-> r]]
             /\ process_output' = r
             /\ tpc' = "classify"
             /\ UNCHANGED texc
       \/ \E e \in ProcessRaises :
             /\ effects' = [effects EXCEPT
                              !.process_called = TRUE,
                              !.process_did = [kind |-> "raise", value |-> e]]
             /\ TileRaise(e)
             /\ UNCHANGED process_output
    /\ UNCHANGED <<execVars, graphVars, tasksVars, moreVars, task, dependencies, di, outcome>>

\* variant of ClassifyOutput: a None output is returned as a result
ClassifyOutputNoneAccepted ==
    /\ tpc = "classify"
    /\ IF process_output = "empty"
       THEN TileRaise("MapcheteNodataTile") /\ UNCHANGED outcome
       ELSE /\ outcome' = Returned("TaskInfo",
                                   TaskInfo(process_output, task.zoom))
            /\ tpc' = "done"
            /\ UNCHANGED texc
    /\ UNCHANGED <<execVars, graphVars, tasksVars, moreVars, task, dependencies, di, process_output, effects>>

\* lines 271-275
ClassifyOutput ==
    /\ tpc = "classify"
    /\ IF process_output = "empty"
       THEN TileRaise("MapcheteNodataTile") /\ UNCHANGED outcome
       ELSE IF process_output = NULL
       THEN TileRaise("MapcheteProcessOutputError") /\ UNCHANGED outcome
       ELSE /\ outcome' = Returned("TaskInfo",
                                   TaskInfo(process_output, task.zoom))
            /\ tpc' = "done"
            /\ UNCHANGED texc
    /\ UNCHANGED <<execVars, graphVars, tasksVars, moreVars, task, dependencies, di, process_output, effects>>

\* lines 188-189: except MapcheteNodataTile: return "empty"
WrapperExcept ==
    /\ tpc = "wrapper_except"
    /\ outcome' = IF texc = "MapcheteNodataTile"
                  THEN Returned("empty", NoInfo)
                  ELSE Raised(texc)
    /\ tpc' = "done"
    /\ UNCHANGED <<execVars, graphVars, tasksVars, moreVars, task, dependencies, di, texc, process_output,
                   effects>>

NextTile ==
    \/ WrapperCall
    \/ CheckMode
    \/ CheckZoom
    \/ EnterExecute
    \/ InterpolateHigher
    \/ InterpolateLower
    \/ AttachDependency
    \/ CallProcess
    \/ ClassifyOutput
    \/ WrapperExcept

SpecTile == InitTile /\ [][NextTile]_vars

\* ------------------------------------------------- properties of TileTask
\* C12: executing a TileTask constructed with skip=true yields a no-data
\* outcome: the wrapper returns "empty" and no exception is raised.
C12_SkipYieldsNoData ==
    (tpc = "done" /\ task.skip) => outcome = Returned("empty", NoInfo)

\* the task's zoom is below every baselevel zoom and _execute has produced
\* its data
BelowBaselevels ==
    /\ tpc \in {"classify", "done"}
    /\ process_output # NULL
    /\ HasBaselevels(task)
    /\ task.zoom < Min(task.config_baselevels.zooms)

\* C13 as claimed: below the minimum baselevel zoom the task reads the
\* parent tile and resamples it with the baselevels higher method; no child
\* tiles are read and the user process is not called.
C13_BelowBaselevelsFromParent ==
    BelowBaselevels =>
        /\ effects.read_parent
        /\ effects.resampling = task.config_baselevels.higher
        /\ ~effects.read_children
        /\ ~effects.process_called

\* C13 amended: below the minimum baselevel zoom the task takes the lower
\* interpolation: child tiles are gathered and mosaicked and the result is
\* resampled with the baselevels lower method; the parent tile is not read
\* and the user process is not called.
C13_BelowBaselevelsFromChildren ==
    BelowBaselevels =>
        /\ effects.read_children
        /\ effects.resampling = task.config_baselevels.lower
        /\ ~effects.read_parent
        /\ ~effects.process_called

C13_Witness ==
    /\ tpc = "done"
    /\ BelowBaselevels
    /\ outcome.kind = "return"
    /\ outcome.info.output = "data"
    /\ effects.resampling = "bilinear"

\* C15: outcome of a tile task that runs the user process: no-data signal
\* or "empty" gives "empty" without an exception; None gives a
\* process-output error; any other exception propagates unchanged;
\* otherwise a TaskInfo with processed=true and the task's tile.
C15_OutcomeClassification ==
    (tpc = "done" /\ effects.process_called) =>
        LET did == effects.process_did IN
        /\ did \in {[kind |-> "raise", value |-> "MapcheteNodataTile"],
                    [kind |-> "return", value |-> "empty"]} =>
              outcome = Returned("empty", NoInfo)
        /\ did = [kind |-> "return", value |-> NULL] =>
              outcome = Raised("MapcheteProcessOutputError")
        /\ did = [kind |-> "raise", value |-> "UserError"] =>
              outcome = Raised("UserError")
        /\ did = [kind |-> "return", value |-> "data"] =>
              /\ outcome.kind = "return"
              /\ outcome.value = "TaskInfo"
              /\ outcome.info.output = "data"
              /\ outcome.info.processed
              /\ outcome.info.tile = task.zoom

C15_Witness ==
    /\ tpc = "done"
    /\ effects.process_did = [kind |-> "return", value |-> NULL]
    /\ outcome = Raised("MapcheteProcessOutputError")

\* a preprocessing dependency key that is malformed: no colon, an empty
\* task key after the colon, or an input key that is none of the task's
MalformedKey(key) ==
    \/ ~HasColon(key)
    \/ TaskKey(key) = <<>>
    \/ InpKey(key) # <<>> /\ InpKey(key) \notin task.input

\* C16: a tile task that receives a malformed preprocessing dependency key
\* fails before the user process is called, in each of the three cases.
C16_MalformedKeyFailsTask ==
    (\E i \in 1..Len(dependencies) :
        /\ ~StartsWithTileTask(dependencies[i].key)
        /\ MalformedKey(dependencies[i].key)) =>
        ~effects.process_called

\* the caller asked for a backend other than the default of line 34
ExplicitChoice == concurrency0 # "processes"

\* C11 as claimed: dask client or scheduler first, then the caller's explicit
\* concurrency choice, then the single-task / single-worker rule, then the
\* default; a lower rule never overrides a higher one.
C11_PrecedenceAsClaimed ==
    (attempt = 1 /\ executor # NoExecutor) =>
        /\ dask => executor.concurrency = "dask"
        /\ (~dask /\ ExplicitChoice) =>
              \/ executor.concurrency = concurrency0
              \/ concurrency0 = "none" /\ executor.concurrency = NULL

\* C11 amended: dask (client, scheduler or concurrency = dask) first, then
\* the single-task / single-worker rule (sequential executor), then the
\* caller's concurrency value, be it explicit or the default.
C11_Precedence ==
    (attempt = 1 /\ executor # NoExecutor) =>
        /\ (dask \/ concurrency0 = "dask") => executor.concurrency = "dask"
        /\ (~dask /\ concurrency0 # "dask"
              /\ (total_tasks = 1 \/ workers = 1)) =>
              executor.concurrency = NULL
        /\ (~dask /\ concurrency0 # "dask"
              /\ total_tasks # 1 /\ workers # 1) =>
              executor.concurrency = concurrency0

C11_Witness ==
    /\ attempt = 1
    /\ executor # NoExecutor
    /\ ~dask
    /\ concurrency0 = "threads"
    /\ workers = 2
    /\ total_tasks = 1
    /\ executor.concurrency = NULL

(***************************************************************************)
(* Model of to_dask_collection() (src/mapchete/processing/tasks.py) and of *)
(* the graph it builds.  A task is a record [kind, zoom, idx]: a tile task *)
(* lies on tile idx of its zoom (the children of tile i are the tiles      *)
(* 4i .. 4i+3 of the next zoom); a preprocessing task (kind "task") has    *)
(* the bounds of that tile.  dask starts a node once all nodes it depends  *)
(* on have finished without error.                                         *)
(***************************************************************************)

TileTasksAt(z) ==
    {[kind |-> "tile", zoom |-> z, idx |-> i] : i \in 0..MaxTileIdx}

PreprocessingTasks ==
    {[kind |-> "task", zoom |-> 0, idx |-> i] : i \in 0..(MaxPreprocessing - 1)}

\* Task.id
TaskId(t) == <<t.kind, t.zoom, t.idx>>

\* tile.get_children(), in the order of the pyramid
Children(t) ==
    [k \in 1..4 |-> [kind |-> "tile", zoom |-> t.zoom + 1,
                     idx |-> 4 * t.idx + (k - 1)]]

RECURSIVE Ancestor(_, _)
\* index of the tile n zooms above tile idx
Ancestor(idx, n) == IF n = 0 THEN idx ELSE Ancestor(idx \div 4, n - 1)

\* the bounds of a and of b intersect
Overlaps(a, b) ==
    IF a.zoom <= b.zoom
    THEN Ancestor(b.idx, b.zoom - a.zoom) = a.idx
    ELSE Ancestor(a.idx, a.zoom - b.zoom) = b.idx

RECURSIVE ByIndex(_)
\* the tasks of S as a list
ByIndex(S) ==
    IF S = {} THEN <<>>
    ELSE LET first == CHOOSE x \in S : \A y \in S : x.idx <= y.idx
         IN  <<first>> \o ByIndex(S \ {first})

\* variant of IntersectionRaises: the task is expected one zoom below
IntersectionRaisesUnlessBelow(batch, other) ==
    /\ batch.kind = "tile"
    /\ other.kind = "tile"
    /\ other.zoom - 1 # batch.zoom

\* TileTaskBatch.intersection(TileTask) raises ValueError
IntersectionRaises(batch, other) ==
    /\ batch.kind = "tile"
    /\ other.kind = "tile"
    /\ other.zoom + 1 # batch.zoom

\* variant of Intersection: every task of the batch is returned
IntersectionWholeBatch(batch, other) == ByIndex(batch.tasks)

\* batch.intersection(other): the list of tasks returned
Intersection(batch, other) ==
    IF batch.kind = "tile" /\ other.kind = "tile"
    THEN SelectSeq(Children(other), LAMBDA child : child \in batch.tasks)
    ELSE ByIndex({t \in batch.tasks : Overlaps(t, other)})

\* lines 583-593: the keys of the dependencies dict of one task
Dependencies(previous, t) ==
    IF previous.tasks # {}
    THEN LET found == Intersection(previous, t)
         IN  {TaskId(found[i]) : i \in DOMAIN found}
    ELSE {}

\* variant of NextPreviousBatch: an empty batch is not remembered
NextPreviousBatchSkipsEmpty(previous, batch) ==
    IF batch.tasks = {} THEN previous ELSE batch

\* line 605: previous_batch = batch
NextPreviousBatch(previous, batch) == batch

PreprocessingBatches ==
    {[id |-> "preprocessing_tasks", kind |-> "task", zoom |-> -1, tasks |-> S] :
        S \in SUBSET PreprocessingTasks}

\* a TileTaskBatch knows its zoom from its members: none when empty
TileBatches ==
    {[id |-> "tile_tasks", kind |-> "tile", zoom |-> -1, tasks |-> {}]} \cup
    UNION {{[id |-> "tile_tasks", kind |-> "tile", zoom |-> z, tasks |-> S] :
               S \in (SUBSET TileTasksAt(z)) \ {{}}} :
           z \in 0..MaxBatchZoom}

RECURSIVE TileBatchLists(_, _, _)
\* lists of at most n tile batches with at most budget tasks in all, the
\* batches that have tasks lying on different zooms out of zooms
TileBatchLists(n, budget, zooms) ==
    {<<>>} \cup
    IF n = 0 THEN {}
    ELSE UNION {{<<b>> \o rest :
                    rest \in TileBatchLists(n - 1,
                                            budget - Cardinality(b.tasks),
                                            zooms \ {b.zoom})} :
                b \in {b \in TileBatches :
                          /\ Cardinality(b.tasks) <= budget
                          /\ b.tasks # {} => b.zoom \in zooms}}

\* what Tasks._batches_generator() can hand over: the preprocessing batch,
\* if any, then tile batches of different zooms
BatchLists(n, budget) ==
    TileBatchLists(n, budget, 0..MaxBatchZoom) \cup
    UNION {{<<pre>> \o tiles :
               tiles \in TileBatchLists(n, budget - Cardinality(pre.tasks),
                                        0..MaxBatchZoom)} :
           pre \in PreprocessingBatches}

InitGraph ==
    /\ ExecuteIdle
    /\ TileIdle
    /\ TasksIdle
    /\ MoreIdle
    /\ batches \in BatchLists(MaxTileBatches, MaxGraphTasks)
    /\ baselevels \in {EmptyDict} \cup
                      {Baselevels({b}, "bilinear", "nearest") :
                          b \in 0..MaxBatchZoom}
    /\ gpc = "convert"
    /\ bi = 1
    /\ tasks = {}
    /\ previous_batch = NoBatch
    /\ running = {}
    /\ results = {}

\* lines 571-605: one round of the loop over the batches
ConvertBatch ==
    /\ gpc = "convert"
    /\ bi <= Len(batches)
    /\ LET batch == batches[bi]
       IN  /\ ~(previous_batch.tasks # {} /\
                \E t \in batch.tasks : IntersectionRaises(previous_batch, t))
           /\ tasks' = tasks \cup
                       {[task |-> t,
                         deps |-> Dependencies(previous_batch, t)] :
                           t \in batch.tasks}
           /\ previous_batch' = NextPreviousBatch(previous_batch, batch)
    /\ bi' = bi + 1
    /\ UNCHANGED <<execVars, tileVars, tasksVars, moreVars, batches, baselevels, gpc,
                   running, results>>

\* lines 583-587, 447-448: intersection raises, no graph is returned
ConvertBatchRaises ==
    /\ gpc = "convert"
    /\ bi <= Len(batches)
    /\ previous_batch.tasks # {}
    /\ \E t \in batches[bi].tasks : IntersectionRaises(previous_batch, t)
    /\ gpc' = "raised"
    /\ UNCHANGED <<execVars, tileVars, tasksVars, moreVars, batches, baselevels, bi,
                   tasks, previous_batch, running, results>>

\* line 606
ReturnGraph ==
    /\ gpc = "convert"
    /\ bi > Len(batches)
    /\ gpc' = "returned"
    /\ UNCHANGED <<execVars, tileVars, tasksVars, moreVars, batches, baselevels, bi,
                   tasks, previous_batch, running, results>>

Finished == {r.task : r \in results}

\* the values of the dependencies dict a node is called with
DependencyValues(node) == {r \in results : TaskId(r.task) \in node.deps}

\* lines 594-603: a delayed node can run once its dependencies are computed
Startable(node) ==
    /\ node.task \notin running
    /\ node.task \notin Finished
    /\ \A d \in node.deps :
          \E r \in results : TaskId(r.task) = d /\ r.value # "error"

StartTask(node) ==
    /\ gpc = "returned"
    /\ node \in tasks
    /\ Startable(node)
    /\ running' = running \cup {node.task}
    /\ UNCHANGED <<execVars, tileVars, tasksVars, moreVars, batches, baselevels, gpc,
                   bi, tasks, previous_batch, results>>

\* the TileTask object of a tile task of the batches
GraphTileTask(t) ==
    TileTaskInit(t.zoom,
                 [zoom_levels |-> ZoomLevels(0..MaxBatchZoom),
                  baselevels |-> baselevels,
                  mode |-> "continue",
                  inputs |-> {}],
                 FALSE)

Result(t, value, how) ==
    [task |-> t, value |-> value, how |-> how, from_deps |-> {},
     from_reader |-> {}, resampling |-> NULL]

\* what the task function of a node can return, given its dependencies
TaskResults(node) ==
    LET t == node.task
        values == DependencyValues(node)
        children == {Children(t)[k] : k \in 1..4}
        given == {r.task : r \in {v \in values : v.value = "data"}}
    IN  IF t.kind = "task"
        THEN \* lines 95-100: Task.execute
             {Result(t, v, "func") : v \in {"data", "error"}}
        ELSE IF ExecutePath(GraphTileTask(t)) = "attach"
        THEN \* lines 307-337, 271-275, 185-189
             {Result(t, v, "process") : v \in {"data", "empty", "error"}}
        ELSE IF ExecutePath(GraphTileTask(t)) = "interpolate_higher"
        THEN \* lines 359-367
             {[Result(t, "data", "interpolate_higher") EXCEPT
                 !.resampling = baselevels.higher]}
        ELSE \* lines 369-409: every value must be a TaskInfo with a tile
             IF \E v \in values : v.value = "empty"
             THEN {Result(t, "error", "interpolate_lower")}
             ELSE IF \E v \in values : v.task.kind = "task"
             THEN {Result(t, v, "interpolate_lower") : v \in {"data", "error"}}
             ELSE {[Result(t, "data", "interpolate_lower") EXCEPT
                      !.from_deps = given,
                      !.from_reader = children \ given,
                      !.resampling = baselevels.lower]}

FinishTask(node) ==
    /\ gpc = "returned"
    /\ node \in tasks
    /\ node.task \in running
    /\ running' = running \ {node.task}
    /\ \E r \in TaskResults(node) : results' = results \cup {r}
    /\ UNCHANGED <<execVars, tileVars, tasksVars, moreVars, batches, baselevels, gpc,
                   bi, tasks, previous_batch>>

NextGraph ==
    \/ ConvertBatch
    \/ ConvertBatchRaises
    \/ ReturnGraph
    \/ \E node \in tasks : StartTask(node)
    \/ \E node \in tasks : FinishTask(node)

SpecGraph == InitGraph /\ [][NextGraph]_vars

\* ------------------------------------------------- claims about the graph
\* index of the batch a task belongs to
BatchOf(t) == CHOOSE k \in DOMAIN batches : t \in batches[k].tasks

C17_DependenciesFromPreviousBatch ==
    \A node \in tasks :
        LET k == BatchOf(node.task)
        IN  IF k = 1 \/ batches[k - 1].tasks = {}
            THEN node.deps = {}
            ELSE /\ node.deps =
                       {TaskId(Intersection(batches[k - 1], node.task)[i]) :
                           i \in DOMAIN Intersection(batches[k - 1], node.task)}
                 /\ node.deps \subseteq
                       {TaskId(u) : u \in batches[k - 1].tasks}

\* a graph has been built in which a task of the third batch depends on
\* tasks of the second batch and not on the task of the first batch whose
\* bounds it intersects
C17_Witness ==
    /\ gpc = "returned"
    /\ \E node \in tasks :
          /\ BatchOf(node.task) = 3
          /\ node.deps # {}
          /\ \E p \in batches[1].tasks :
                Overlaps(p, node.task) /\ TaskId(p) \notin node.deps

\* C18 as claimed, for the graph of to_dask_collection and two tile batches
\* of adjacent zooms: no task of the later batch is started by dask while a
\* task of the batch before it has not finished.
C18_BatchSynchronous ==
    \A k \in DOMAIN batches :
        (k > 1 /\ batches[k].kind = "tile" /\ batches[k - 1].kind = "tile") =>
        \A t \in batches[k].tasks, p \in batches[k - 1].tasks :
            t \in running \cup Finished => p \in Finished

(***************************************************************************)
(* Model of the Tasks container (src/mapchete/processing/tasks.py).  A     *)
(* batch is a record [id, tile, len]: tile tells a TileTaskBatch from any  *)
(* other batch, len is its number of tasks.  The generator handed to the   *)
(* constructor yields its batches and then ends or raises; once it has     *)
(* ended or raised it yields nothing more.  Every call made on the         *)
(* container is one action.                                                *)
(***************************************************************************)

Batches(i) ==
    {[id |-> i, tile |-> tile, len |-> len] :
        tile \in BOOLEAN, len \in 0..MaxBatchLen}

\* the generators handed to Tasks.__init__
Generators ==
    {Generator(items, raises) :
        items \in UNION {{s \in [1..n -> UNION {Batches(i) : i \in 1..n}] :
                            \A i \in 1..n : s[i].id = i} :
                         n \in 0..MaxGenerated},
        raises \in BOOLEAN}

InitTasks ==
    /\ ExecuteIdle
    /\ TileIdle
    /\ GraphIdle
    /\ MoreIdle
    /\ _task_batches_generator \in Generators
    /\ _preprocessing_batches = <<>>
    /\ _tile_batches = <<>>
    /\ materialized = FALSE
    /\ produced = <<>>
    /\ iterations = 0
    /\ calls = 0
    /\ returned = NoCall

IsTileTaskBatch(batch) == batch.tile

IsOtherBatch(batch) == ~batch.tile

\* lines 508-519: materialize() raises what the generator raises
MaterializeRaises == ~materialized /\ _task_batches_generator.raises

\* lines 508-519: materialize()
Materialize ==
    IF materialized
    THEN UNCHANGED <<_task_batches_generator, _preprocessing_batches,
                     _tile_batches, materialized, produced, iterations>>
    ELSE /\ _preprocessing_batches' =
               SelectSeq(_task_batches_generator.items, IsOtherBatch)
         /\ _tile_batches' =
               SelectSeq(_task_batches_generator.items, IsTileTaskBatch)
         /\ _task_batches_generator' = Exhausted
         /\ produced' = produced \o _task_batches_generator.items
         /\ iterations' = iterations + 1
         /\ materialized' = ~_task_batches_generator.raises

Call(op, value, len) ==
    /\ calls < MaxCalls
    /\ calls' = calls + 1
    /\ returned' = IF MaterializeRaises
                   THEN [op |-> op, raised |-> TRUE, value |-> <<>>, len |-> 0]
                   ELSE [op |-> op, raised |-> FALSE, value |-> value,
                         len |-> len]
    /\ UNCHANGED <<execVars, tileVars, graphVars, moreVars>>

RECURSIVE SumLen(_)
\* line 501: sum([len(batch) for batch in ...])
SumLen(bs) == IF bs = <<>> THEN 0 ELSE bs[1].len + SumLen(Tail(bs))

RECURSIVE TasksOf(_)
\* lines 556-558: the tasks of the batches, one after the other, each task
\* given by the batch it belongs to
TasksOf(bs) ==
    IF bs = <<>> THEN <<>>
    ELSE [i \in 1..bs[1].len |-> bs[1]] \o TasksOf(Tail(bs))

\* lines 503-506: _batches_generator(), run to its end; it reads both
\* properties before it yields
BatchesGenerator == _preprocessing_batches' \o _tile_batches'

\* lines 508-519
CallMaterialize ==
    /\ Materialize
    /\ Call("materialize", <<>>, 0)

\* lines 521-524
GetPreprocessingBatches ==
    /\ Materialize
    /\ Call("preprocessing_batches", _preprocessing_batches', 0)

\* lines 526-529
GetTileBatches ==
    /\ Materialize
    /\ Call("tile_batches", _tile_batches', 0)

\* lines 499-501
CallLen ==
    /\ Materialize
    /\ Call("__len__", <<>>, SumLen(BatchesGenerator))

\* lines 561-563
ToBatches ==
    /\ Materialize
    /\ Call("to_batches", BatchesGenerator, 0)

\* lines 555-559, the returned generator run to its end
ToBatch ==
    /\ Materialize
    /\ Call("to_batch", TasksOf(BatchesGenerator), 0)

\* lines 534-545: the batches to_dask_collection() is given
ToDaskGraph ==
    /\ Materialize
    /\ Call("to_dask_graph", BatchesGenerator, 0)

NextTasks ==
    \/ CallMaterialize
    \/ GetPreprocessingBatches
    \/ GetTileBatches
    \/ CallLen
    \/ ToBatches
    \/ ToBatch
    \/ ToDaskGraph

SpecTasks == InitTasks /\ [][NextTasks]_vars

\* --------------------------------------- claims about the Tasks container
\* C19 as claimed: whatever calls are made on a Tasks container, the batch
\* generator is iterated at most once, and once a materialization has
\* succeeded the two lists stay the same.
C19_MaterializedOnce ==
    /\ [](iterations <= 1)
    /\ [][materialized =>
            UNCHANGED <<_preprocessing_batches, _tile_batches>>]_vars

\* C20 as claimed: what to_batches() returns, what to_dask_graph() converts
\* and what __len__ counts is every batch the generator has yielded, once
\* each, the batches that are no TileTaskBatch first and the TileTaskBatches
\* after them, each group in the order the generator yielded it.
C20_TwoPhaseOrder ==
    LET ordered == SelectSeq(produced, IsOtherBatch) \o
                   SelectSeq(produced, IsTileTaskBatch)
    IN  ~returned.raised =>
        /\ returned.op \in {"to_batches", "to_dask_graph"}
              => returned.value = ordered
        /\ returned.op = "__len__" => returned.len = SumLen(ordered)

\* ------------------------------- further claims about Tasks
\* C35 as claimed: when the generator raises while materialize() drains it,
\* the call raises and the container is not materialized; a container that
\* reports itself materialized holds every batch the generator has
\* produced, whatever was accessed before.
C35_FailedMaterializeNeverHidesBatches ==
    /\ returned.raised => ~materialized
    /\ materialized =>
          /\ _preprocessing_batches = SelectSeq(produced, IsOtherBatch)
          /\ _tile_batches = SelectSeq(produced, IsTileTaskBatch)

\* ------------------------------- further claims about TileTask
\* a task that is not skipped, with a zoom outside the zoom levels, has run
OutsideZoomLevels ==
    /\ tpc = "done"
    /\ ~task.skip
    /\ task.zoom \notin task.config_zoom_levels.zooms

\* C26 as claimed: in every processing mode, executing a non-skipped
\* TileTask whose zoom is not in the zoom levels yields a no-data outcome
\* without calling the user process, reading an output tile or touching
\* the dependencies.
C26_OutsideZoomLevelsNoDataAnyMode ==
    OutsideZoomLevels =>
        /\ outcome = Returned("empty", NoInfo)
        /\ effects = NoEffects

\* C26 amended: in the modes memory, continue and overwrite such a task
\* yields a no-data outcome; in any other mode (readonly) it fails with a
\* ValueError; in both cases the user process is not called, no output
\* tile is read and the dependencies are not touched.
C26_OutsideZoomLevelsNoData ==
    OutsideZoomLevels =>
        /\ outcome = IF task.mode \in {"memory", "continue", "overwrite"}
                     THEN Returned("empty", NoInfo)
                     ELSE Raised("ValueError")
        /\ effects = NoEffects

\* a task of a continue job with a dependency and a zoom outside the zoom
\* levels ended without data
C26_Witness ==
    /\ OutsideZoomLevels
    /\ task.mode = "continue"
    /\ dependencies # <<>>
    /\ outcome = Returned("empty", NoInfo)

\* ------------------------------- further claims about the task graph
\* C27 as claimed: a tile task that interpolates from its child tiles does
\* not fail because a child task ended without data: the tiles of such a
\* child are read from the output reader, and the children whose output is
\* in the dependencies are not read from the output reader.
C27_NoDataChildReadFromOutput ==
    \A r \in results :
        (r.task.kind = "tile" /\ r.how = "interpolate_lower") =>
            LET node == CHOOSE n \in tasks : n.task = r.task
                values == DependencyValues(node)
                given == {v.task : v \in {w \in values : w.value = "data"}}
            IN  (\A v \in values : v.task.kind = "tile") =>
                    /\ r.value = "data"
                    /\ r.from_deps = given
                    /\ r.from_reader =
                          {Children(r.task)[k] : k \in 1..4} \ given

\* batches k - 1 and k are tile batches that both have tasks
ConsecutiveTileBatches(k) ==
    /\ k \in 2..Len(batches)
    /\ batches[k - 1].kind = "tile"
    /\ batches[k].kind = "tile"
    /\ batches[k - 1].tasks # {}
    /\ batches[k].tasks # {}

\* C32: the tasks of a non-empty tile batch that directly follows a
\* non-empty tile batch are wired only if the zoom of the later batch + 1
\* is the zoom of the earlier one; for any other order of the zooms the
\* conversion raises at the later batch and no graph is returned.
C32_WiringNeedsNextZoomAbove ==
    /\ \A k \in 2..Len(batches) :
          ConsecutiveTileBatches(k) =>
             IF batches[k].zoom + 1 = batches[k - 1].zoom
             THEN ~(gpc = "raised" /\ bi = k)
             ELSE /\ bi <= k
                  /\ gpc # "returned"
                  /\ \A node \in tasks : node.task \notin batches[k].tasks
    /\ gpc = "raised" =>
          /\ ConsecutiveTileBatches(bi)
          /\ batches[bi].zoom + 1 # batches[bi - 1].zoom

\* the conversion has raised at a tile batch that lies one zoom below the
\* tile batch before it
C32_Witness ==
    /\ gpc = "raised"
    /\ bi = 2
    /\ ConsecutiveTileBatches(2)
    /\ batches[2].zoom = batches[1].zoom + 1

\* ------------------------------- further claims about execute()
\* a status is emitted by the step
Emits(status) == statuses' = Append(statuses, status)

\* C24: retrying is emitted only right after failed, and the status that
\* follows a retrying is initializing, never running: running is emitted
\* only right after the initializing of its own attempt, with the tasks of
\* that attempt counted and an executor acquired for it.
C24_RetryReinitializes ==
    [][/\ Emits("retrying") => Last(statuses) = "failed"
       /\ (statuses' # statuses /\ statuses # <<>>
             /\ Last(statuses) = "retrying") => Emits("initializing")
       /\ Emits("running") =>
             /\ Last(statuses) = "initializing"
             /\ Count(statuses, "initializing") = attempt
             /\ acquired = attempt
             /\ executor # NoExecutor]_vars

\* the second attempt runs after failed, retrying, initializing
C24_Witness ==
    /\ Len(statuses) >= 6
    /\ statuses[Len(statuses) - 3] = "failed"
    /\ statuses[Len(statuses) - 2] = "retrying"
    /\ statuses[Len(statuses) - 1] = "initializing"
    /\ Last(statuses) = "running"
    /\ attempt = 2
    /\ acquired = 2

\* C25: an exception of both the cancel class and the retry classes is
\* handled as a cancellation: it never reaches the retry handler, cancelled
\* is emitted for it and the retry counter keeps its value; the job it ends
\* has emitted cancelled last, has emitted no failed without a retrying,
\* has decremented the retry counter only for its retrying statuses, and
\* the exception propagates.
C25_CancelBeforeRetry ==
    /\ [](pc = "except_retry" => ~exc.cancel)
    /\ [][(pc = "except_cancel" /\ exc.retry) =>
            /\ Emits("cancelled")
            /\ retries' = retries
            /\ pc' # "retry_check"]_vars
    /\ []((Ended /\ exc.src = "task" /\ exc.cancel /\ exc.retry) =>
            /\ pc = "raised"
            /\ Last(statuses) = "cancelled"
            /\ Count(statuses, "failed") = Count(statuses, "retrying")
            /\ retries = retries0 - Count(statuses, "retrying"))

\* a task raised an exception of both classes while retries were left
C25_Witness ==
    /\ pc = "raised"
    /\ exc.src = "task"
    /\ exc.cancel
    /\ exc.retry
    /\ retries = MaxRetries
    /\ Count(statuses, "failed") = 0
    /\ Last(statuses) = "cancelled"

\* C30: execute() holds at most one executor at any time: initializing is
\* emitted and an executor is acquired only while none is held, every
\* executor acquired before being released; failed, retrying and cancelled
\* are emitted while the executor of their attempt is still held.
C30_OneExecutorAtATime ==
    /\ [](acquired - released \in {0, 1})
    /\ [][/\ Emits("initializing") =>
               executor = NoExecutor /\ released = acquired
          /\ acquired' # acquired =>
               /\ executor = NoExecutor
               /\ released = acquired
               /\ acquired' = acquired + 1
          /\ (Emits("failed") \/ Emits("retrying") \/ Emits("cancelled")) =>
               /\ executor # NoExecutor
               /\ executor' = executor
               /\ acquired = attempt
               /\ released = attempt - 1
               /\ released' = released]_vars

\* the third attempt acquires its executor, the first two are released
C30_Witness ==
    /\ pc = "running"
    /\ attempt = 3
    /\ acquired = 3
    /\ released = 2
    /\ Count(statuses, "retrying") = 2

\* C31: once an attempt has switched the concurrency to dask or to the
\* sequential executor (None), the local keeps that value for the rest of
\* the call and every executor acquired afterwards is of that backend,
\* whatever the task count of the later attempt.
C31_BackendSticky ==
    /\ [][(concurrency \in {"dask", NULL}) =>
             (concurrency' = concurrency)]_vars
    /\ [][(acquired' # acquired) =>
             (executor' = [concurrency |-> concurrency])]_vars
    /\ []((executor # NoExecutor /\ attempt >= 2
            /\ Count(statuses, "running") >= 1) =>
              (concurrency \in {"dask", NULL} =>
                  executor.concurrency = concurrency))

\* the first attempt had one task and ran sequentially; the second has two
\* tasks and two workers and runs sequentially again
C31_Witness ==
    /\ attempt = 2
    /\ total_tasks = 2
    /\ workers = 2
    /\ ~dask
    /\ concurrency0 = "threads"
    /\ executor # NoExecutor
    /\ executor.concurrency = NULL

\* C36 as claimed: for every integer retries the retry counter is never
\* decremented below 0 and execute() makes at most max(retries, 0) + 1
\* attempts, also when retries is negative and every attempt fails.
C36_AttemptsBounded ==
    /\ retries >= 0 \/ retries = retries0
    /\ attempt <= Max({retries0, 0}) + 1

(***************************************************************************)
(* Model of Task.__init__ (src/mapchete/processing/tasks.py).  The value   *)
(* of an argument is a record [is, kind, box]: is tells None, an empty     *)
(* value (an empty dict, an empty shapely geometry, an empty tuple) and a  *)
(* proper value apart; box is the (left, bottom, right, top) of the value. *)
(* The constructor tests its arguments for truth: None and the empty       *)
(* values are false.                                                       *)
(***************************************************************************)

\* not this specification's variables
notCtor ==
    <<execVars, tileVars, graphVars, tasksVars, batchVars, cliVars, zoomVars,
      attachVars>>

Boxes ==
    {<<left, bottom, right, top>> :
        left \in 0..MaxCoord, bottom \in 0..MaxCoord,
        right \in 0..MaxCoord, top \in 0..MaxCoord} \cap
    {b \in Seq(0..MaxCoord) : Len(b) = 4 /\ b[1] < b[3] /\ b[2] < b[4]}

\* what the argument geometry can be
Geometries ==
    {NoneValue,
     [is |-> "empty dict", kind |-> NULL, box |-> <<>>],
     [is |-> "empty shape", kind |-> NULL, box |-> <<>>]} \cup
    {[is |-> is, kind |-> kind, box |-> box] :
        is \in {"dict", "shape"}, kind \in {"box", "triangle"}, box \in Boxes}

\* what the argument bounds can be
BoundsLikes ==
    {NoneValue, [is |-> "empty tuple", kind |-> NULL, box |-> <<>>]} \cup
    {[is |-> "tuple", kind |-> NULL, box |-> box] : box \in Boxes}

\* bool(value)
Truthy(value) == value.is \in {"dict", "shape", "tuple", "Bounds"}

\* to_shape(geometry)
ToShape(g) == [g EXCEPT !.is = "shape"]

\* validate_bounds(bounds)
ValidateBounds(box) == [is |-> "Bounds", kind |-> NULL, box |-> box]

\* box(*bounds)
BoxGeometry(b) == [is |-> "shape", kind |-> "box", box |-> b.box]

InitCtor ==
    /\ ExecuteIdle
    /\ TileIdle
    /\ GraphIdle
    /\ TasksIdle
    /\ BatchIdle
    /\ CliIdle
    /\ ZoomIdle
    /\ AttachIdle
    /\ geometry \in Geometries
    /\ bounds \in BoundsLikes
    /\ self_geometry = NoneValue
    /\ self_bounds = NoneValue
    /\ constructed = "no"

\* line 67: if geometry and bounds
BothGiven == Truthy(geometry) /\ Truthy(bounds)

\* lines 67-68
TaskInitRaises ==
    /\ constructed = "no"
    /\ BothGiven
    /\ constructed' = "ValueError"
    /\ UNCHANGED <<notCtor, geometry, bounds, self_geometry, self_bounds>>

\* lines 69-71
TaskInitFromGeometry ==
    /\ constructed = "no"
    /\ ~BothGiven
    /\ Truthy(geometry)
    /\ self_geometry' = ToShape(geometry)
    /\ self_bounds' = ValidateBounds(ToShape(geometry).box)
    /\ constructed' = "yes"
    /\ UNCHANGED <<notCtor, geometry, bounds>>

\* lines 72-74
TaskInitFromBounds ==
    /\ constructed = "no"
    /\ ~BothGiven
    /\ ~Truthy(geometry)
    /\ Truthy(bounds)
    /\ self_bounds' = ValidateBounds(bounds.box)
    /\ self_geometry' = BoxGeometry(ValidateBounds(bounds.box))
    /\ constructed' = "yes"
    /\ UNCHANGED <<notCtor, geometry, bounds>>

\* lines 75-76
TaskInitNeither ==
    /\ constructed = "no"
    /\ ~Truthy(geometry)
    /\ ~Truthy(bounds)
    /\ self_bounds' = NoneValue
    /\ self_geometry' = NoneValue
    /\ constructed' = "yes"
    /\ UNCHANGED <<notCtor, geometry, bounds>>

\* lines 104-105: has_geometry()
has_geometry == self_geometry # NoneValue

NextCtor ==
    \/ TaskInitRaises
    \/ TaskInitFromGeometry
    \/ TaskInitFromBounds
    \/ TaskInitNeither

SpecCtor == InitCtor /\ [][NextCtor]_vars

\* ---------------------------------------- claims about Task construction
\* C21 as claimed: Task construction given both a geometry and bounds
\* raises and creates no task; given one of the two it derives the other
\* from it; given neither it leaves both unset and has_geometry() is false;
\* a constructed task has a geometry if and only if it has bounds.
C21_GeometryBoundsConsistent ==
    constructed # "no" =>
    /\ (geometry # NoneValue /\ bounds # NoneValue)
          => constructed = "ValueError"
    /\ (geometry # NoneValue /\ bounds = NoneValue)
          => /\ constructed = "yes"
             /\ self_geometry = ToShape(geometry)
             /\ self_bounds = ValidateBounds(geometry.box)
    /\ (geometry = NoneValue /\ bounds # NoneValue)
          => /\ constructed = "yes"
             /\ self_bounds = ValidateBounds(bounds.box)
             /\ self_geometry = BoxGeometry(self_bounds)
    /\ (geometry = NoneValue /\ bounds = NoneValue)
          => /\ constructed = "yes"
             /\ self_geometry = NoneValue
             /\ self_bounds = NoneValue
             /\ ~has_geometry
    /\ constructed = "yes" =>
          (self_geometry # NoneValue <=> self_bounds # NoneValue)

(***************************************************************************)
(* Model of TileTaskBatch.__init__, _validate, _update_bounds and          *)
(* intersection (src/mapchete/processing/tasks.py).  An item of the list   *)
(* given to the constructor is a record [kind, tp, zoom, idx]: a TileTask  *)
(* on tile idx of its zoom in pyramid tp, or something that is no          *)
(* TileTask.  The dict comprehension of line 427 pulls the items out of    *)
(* _validate one at a time.                                                *)
(***************************************************************************)

notBatch ==
    <<execVars, tileVars, graphVars, tasksVars, ctorVars, cliVars, zoomVars,
      attachVars>>

Pyramids == {"geodetic", "mercator"}

\* what a member of the list can be
Items ==
    {[kind |-> "task", tp |-> NULL, zoom |-> -1, idx |-> -1]} \cup
    {[kind |-> "tile", tp |-> tp, zoom |-> z, idx |-> i] :
        tp \in Pyramids, z \in 0..MaxBatchZoom, i \in 0..MaxTileIdx}

RECURSIVE ItemLists(_)
ItemLists(n) ==
    IF n = 0 THEN {<<>>}
    ELSE LET shorter == ItemLists(n - 1)
         IN  shorter \cup
             {Append(l, item) : l \in {x \in shorter : Len(x) = n - 1},
                                item \in Items}

\* item.tile, the key of the dict
Tile(item) == <<item.zoom, item.idx>>

\* the TileTask as the graph model knows it
AsTask(item) == [kind |-> item.kind, zoom |-> item.zoom, idx |-> item.idx]

RECURSIVE Col(_, _)
Col(idx, z) ==
    IF z = 0 THEN 0 ELSE 2 * Col(idx \div 4, z - 1) + ((idx % 4) % 2)

RECURSIVE Row(_, _)
Row(idx, z) ==
    IF z = 0 THEN 0 ELSE 2 * Row(idx \div 4, z - 1) + ((idx % 4) \div 2)

\* (left, bottom, right, top) of a tile, in tiles of its zoom
TileBounds(tile) ==
    LET col == Col(tile[2], tile[1])
        row == Row(tile[2], tile[1])
    IN  <<col, 0 - (row + 1), col + 1, 0 - row>>

RECURSIVE UpdateBounds(_, _)
\* lines 436-444: _update_bounds()
UpdateBounds(b, tiles) ==
    IF tiles = {} THEN b
    ELSE LET tile == CHOOSE t \in tiles : TRUE
             tb == TileBounds(tile)
             nb == IF b = <<>> THEN tb
                   ELSE <<Min({b[1], tb[1]}), Min({b[2], tb[2]}),
                          Max({b[3], tb[3]}), Max({b[4], tb[4]})>>
         IN  UpdateBounds(nb, tiles \ {tile})

InitBatch ==
    /\ ExecuteIdle
    /\ TileIdle
    /\ GraphIdle
    /\ TasksIdle
    /\ CtorIdle
    /\ CliIdle
    /\ ZoomIdle
    /\ AttachIdle
    /\ tasks_arg \in ItemLists(MaxItems)
    /\ vi = 1
    /\ _tp = NULL
    /\ _zoom = -1
    /\ self_tasks = {}
    /\ batch_bounds = <<>>
    /\ built = "no"
    /\ other_arg = NoTask
    /\ found_tasks = NotCalled

\* variant of ItemRaises: the zoom of a member is not compared
ItemRaisesZoomUnchecked(item, tp, zoom) ==
    \/ item.kind # "tile"
    \/ tp # NULL /\ item.tp # tp

\* lines 475-485: the checks _validate makes on one item
ItemRaises(item, tp, zoom) ==
    \/ item.kind # "tile"
    \/ tp # NULL /\ item.tp # tp
    \/ zoom # -1 /\ item.zoom # zoom

\* lines 474-486 and 427: one item passes _validate and enters the dict
ValidateItem ==
    /\ built = "no"
    /\ vi <= Len(tasks_arg)
    /\ ~ItemRaises(tasks_arg[vi], _tp, _zoom)
    /\ _tp' = IF _tp = NULL THEN tasks_arg[vi].tp ELSE _tp
    /\ _zoom' = IF _zoom = -1 THEN tasks_arg[vi].zoom ELSE _zoom
    /\ self_tasks' =
          {e \in self_tasks : e.tile # Tile(tasks_arg[vi])} \cup
          {[tile |-> Tile(tasks_arg[vi]), task |-> tasks_arg[vi]]}
    /\ vi' = vi + 1
    /\ UNCHANGED <<notBatch, tasks_arg, batch_bounds, built, other_arg,
                   found_tasks>>

\* lines 475-485: _validate raises, the constructor fails
ValidateRaises ==
    /\ built = "no"
    /\ vi <= Len(tasks_arg)
    /\ ItemRaises(tasks_arg[vi], _tp, _zoom)
    /\ built' = "TypeError"
    /\ self_tasks' = {}
    /\ UNCHANGED <<notBatch, tasks_arg, vi, _tp, _zoom, batch_bounds, other_arg,
                   found_tasks>>

\* lines 427-431: the list is used up, the batch is complete
FinishBatch ==
    /\ built = "no"
    /\ vi > Len(tasks_arg)
    /\ batch_bounds' = UpdateBounds(<<>>, {e.tile : e \in self_tasks})
    /\ built' = "yes"
    /\ UNCHANGED <<notBatch, tasks_arg, vi, _tp, _zoom, self_tasks, other_arg,
                   found_tasks>>

\* the batch as the graph model knows it
SelfBatch ==
    [id |-> "tile_tasks", kind |-> "tile", zoom |-> _zoom,
     tasks |-> {AsTask(e.task) : e \in self_tasks}]

\* lines 446-469: intersection(other) on the constructed batch
Intersect ==
    /\ built = "yes"
    /\ ~found_tasks.called
    /\ \E o \in UNION {TileTasksAt(z) : z \in 0..(MaxBatchZoom + 1)} \cup
                PreprocessingTasks :
          /\ other_arg' = o
          /\ found_tasks' =
                IF IntersectionRaises(SelfBatch, o)
                THEN [called |-> TRUE, raised |-> "ValueError", value |-> <<>>]
                ELSE [called |-> TRUE, raised |-> NULL,
                      value |-> Intersection(SelfBatch, o)]
    /\ UNCHANGED <<notBatch, tasks_arg, vi, _tp, _zoom, self_tasks,
                   batch_bounds, built>>

NextBatch ==
    \/ ValidateItem
    \/ ValidateRaises
    \/ FinishBatch
    \/ Intersect

SpecBatch == InitBatch /\ [][NextBatch]_vars

\* ---------------------------------------- claims about TileTaskBatch
\* member i of the list is no TileTask or differs from the first member
BadMember(i) ==
    \/ tasks_arg[i].kind # "tile"
    \/ tasks_arg[i].tp # tasks_arg[1].tp
    \/ tasks_arg[i].zoom # tasks_arg[1].zoom

\* C22: a TileTaskBatch is constructed only from TileTasks of one pyramid
\* and one zoom: construction fails with a TypeError at the first member
\* that is no TileTask or has another pyramid or zoom than the first
\* member; a constructed batch holds tasks of a single zoom, each under the
\* key of its tile.
C22_BatchOfOneZoom ==
    /\ built = "TypeError" =>
          /\ BadMember(vi)
          /\ \A i \in 1..(vi - 1) : ~BadMember(i)
    /\ built = "yes" =>
          /\ \A i \in 1..Len(tasks_arg) : ~BadMember(i)
          /\ \A e \in self_tasks :
                /\ e.task.kind = "tile"
                /\ e.task.zoom = _zoom
                /\ e.task.tp = _tp
                /\ e.tile = Tile(e.task)
          /\ \A e, f \in self_tasks : e.tile = f.tile => e = f
          /\ {e.tile : e \in self_tasks} =
                {Tile(tasks_arg[i]) : i \in 1..Len(tasks_arg)}

\* a list whose second member lies on another zoom was refused
C22_Witness ==
    /\ built = "TypeError"
    /\ vi = 2
    /\ tasks_arg[2].kind = "tile"
    /\ tasks_arg[2].tp = tasks_arg[1].tp
    /\ tasks_arg[2].zoom # tasks_arg[1].zoom

\* the list holds exactly the tasks of the batch that lie on the children
\* of other.tile, in the order of the children, none of them twice
ChildTasksInOrder(list) ==
    /\ {list[i] : i \in DOMAIN list} =
          {t \in SelfBatch.tasks :
              \E k \in 1..4 : t = Children(other_arg)[k]}
    /\ Len(list) <= 4
    /\ \A i, j \in DOMAIN list :
          i < j => \E k, l \in 1..4 : /\ k < l
                                      /\ list[i] = Children(other_arg)[k]
                                      /\ list[j] = Children(other_arg)[l]

\* C23 as claimed: on a batch whose members are at zoom z, intersection()
\* with a TileTask at zoom z+1 returns the tasks of the batch on the
\* children of other.tile, in child order, none twice.
C23_IntersectionWithTaskOfNextZoom ==
    (/\ found_tasks.called
     /\ _zoom # -1
     /\ other_arg.kind = "tile"
     /\ other_arg.zoom = _zoom + 1)
    => /\ found_tasks.raised = NULL
       /\ ChildTasksInOrder(found_tasks.value)

\* C23 amended: on a batch whose members are at zoom z, intersection()
\* with a TileTask at zoom z-1 returns the tasks of the batch on the
\* children of other.tile, in child order, none twice; with a TileTask of
\* any other zoom it raises ValueError.
C23_IntersectionWithTaskOfZoomAbove ==
    (found_tasks.called /\ other_arg.kind = "tile") =>
       IF _zoom # -1 /\ other_arg.zoom = _zoom - 1
       THEN /\ found_tasks.raised = NULL
            /\ ChildTasksInOrder(found_tasks.value)
       ELSE found_tasks.raised = "ValueError"

\* a batch at zoom 1 returned two of its tasks, not all, for a zoom 0 task
C23_Witness ==
    /\ found_tasks.called
    /\ other_arg.kind = "tile"
    /\ other_arg.zoom = _zoom - 1
    /\ Len(found_tasks.value) = 2
    /\ found_tasks.value[1].idx < found_tasks.value[2].idx
    /\ Cardinality(self_tasks) = 2

(***************************************************************************)
(* Model of main() and worker() of the legacy command-line runner          *)
(* (src/cli/mapchete_execute.py) with the process of                       *)
(* src/test/example_process.py.  The pool runs at most cpu_count()         *)
(* worker() calls at a time, imap_unordered hands their results to main()  *)
(* in the order they complete and re-raises in main() what a call raised;  *)
(* a closed pool still finishes the calls it was given.                    *)
(***************************************************************************)

notCli ==
    <<execVars, tileVars, graphVars, tasksVars, ctorVars, batchVars, zoomVars,
      attachVars>>

\* the lists of n work tiles
WorkTiles == UNION {[1..n -> 0..MaxCol] : n \in 0..MaxWorkTiles}

InitCli ==
    /\ ExecuteIdle
    /\ TileIdle
    /\ GraphIdle
    /\ TasksIdle
    /\ CtorIdle
    /\ BatchIdle
    /\ ZoomIdle
    /\ AttachIdle
    /\ work_tiles \in WorkTiles
    /\ cpus \in 1..MaxWorkers
    /\ calls_state = [i \in DOMAIN work_tiles |-> "queued"]
    /\ ready = {}
    /\ counter = 0
    /\ log = <<>>
    /\ pool = "open"
    /\ mpc = "try"
    /\ mexc = NULL

\* example_process.py lines 33-43: what Process.execute can do on a tile
ExecuteOutcomes(col) ==
    IF col % 2 = 1 THEN {"IOError"} ELSE {"ok", "KeyError", "IOError"}

\* variant of WorkerReturns: worker() has no except clause
WorkerReturnsUncaught(i, did) ==
    IF did = "ok"
    THEN [tile |-> i, raised |-> FALSE, value |-> "ok"]
    ELSE [tile |-> i, raised |-> TRUE, value |-> did]

\* lines 92-98: what a worker() call gives the pool once the process of
\* the tile is executed
WorkerReturns(i, did) == [tile |-> i, raised |-> FALSE, value |-> did]

\* lines 65-66: counter = 0, the progress bar is started and the pool is
\* given the work tiles
EnterLoop ==
    /\ mpc = "try"
    /\ counter' = 0
    /\ mpc' = "loop"
    /\ UNCHANGED <<notCli, work_tiles, cpus, calls_state, ready, log, pool,
                   mexc>>

\* a process of the pool takes the next work tile
StartWorker(i) ==
    /\ mpc # "try"
    /\ pool # "joined"
    /\ calls_state[i] = "queued"
    /\ \A j \in 1..(i - 1) : calls_state[j] # "queued"
    /\ Cardinality({j \in DOMAIN work_tiles : calls_state[j] = "running"})
          < cpus
    /\ calls_state' = [calls_state EXCEPT ![i] = "running"]
    /\ UNCHANGED <<notCli, work_tiles, cpus, ready, counter, log, pool, mpc,
                   mexc>>

\* lines 84-89: loading the process file or constructing the process
\* raises, outside the try statement of worker()
WorkerSetupRaises(i) ==
    /\ calls_state[i] = "running"
    /\ calls_state' = [calls_state EXCEPT ![i] = "setup raised"]
    /\ ready' = ready \cup
                   {[tile |-> i, raised |-> TRUE, value |-> "ImportError"]}
    /\ UNCHANGED <<notCli, work_tiles, cpus, counter, log, pool, mpc, mexc>>

\* lines 92-98: the process is executed on the tile
WorkerExecutes(i) ==
    /\ calls_state[i] = "running"
    /\ \E did \in ExecuteOutcomes(work_tiles[i]) :
          /\ calls_state' = [calls_state EXCEPT ![i] = did]
          /\ ready' = ready \cup {WorkerReturns(i, did)}
    /\ UNCHANGED <<notCli, work_tiles, cpus, counter, log, pool, mpc, mexc>>

\* lines 67-71: imap_unordered yields an output
TakeOutput ==
    /\ mpc = "loop"
    /\ \E output \in ready :
          /\ ~output.raised
          /\ ready' = ready \ {output}
          /\ counter' = counter + 1
          /\ log' = Append(log, <<output.tile, output.value>>)
    /\ UNCHANGED <<notCli, work_tiles, cpus, calls_state, pool, mpc, mexc>>

\* line 67: imap_unordered re-raises what a worker() call raised
TakeRaises ==
    /\ mpc = "loop"
    /\ \E output \in ready :
          /\ output.raised
          /\ ready' = ready \ {output}
          /\ mexc' = output.value
    /\ mpc' = "finally"
    /\ UNCHANGED <<notCli, work_tiles, cpus, calls_state, counter, log, pool>>

\* lines 67 and 72: every work tile has given its result, the loop ends
LoopEnds ==
    /\ mpc = "loop"
    /\ counter = Len(work_tiles)
    /\ mpc' = "finally"
    /\ UNCHANGED <<notCli, work_tiles, cpus, calls_state, ready, counter, log,
                   pool, mexc>>

\* line 76
PoolClose ==
    /\ mpc = "finally"
    /\ pool' = "closed"
    /\ mpc' = "join"
    /\ UNCHANGED <<notCli, work_tiles, cpus, calls_state, ready, counter, log,
                   mexc>>

\* line 77: join() returns once the pool has finished the calls it was given
PoolJoin ==
    /\ mpc = "join"
    /\ \A i \in DOMAIN work_tiles : calls_state[i] \notin {"queued", "running"}
    /\ pool' = "joined"
    /\ mpc' = IF mexc = NULL THEN "print" ELSE "raised"
    /\ UNCHANGED <<notCli, work_tiles, cpus, calls_state, ready, counter, log,
                   mexc>>

\* line 79
PrintLog ==
    /\ mpc = "print"
    /\ mpc' = "returned"
    /\ UNCHANGED <<notCli, work_tiles, cpus, calls_state, ready, counter, log,
                   pool, mexc>>

NextCli ==
    \/ EnterLoop
    \/ \E i \in DOMAIN work_tiles : StartWorker(i)
    \/ \E i \in DOMAIN work_tiles : WorkerSetupRaises(i)
    \/ \E i \in DOMAIN work_tiles : WorkerExecutes(i)
    \/ TakeOutput
    \/ TakeRaises
    \/ LoopEnds
    \/ PoolClose
    \/ PoolJoin
    \/ PrintLog

SpecCli == InitCli /\ [][NextCli]_vars

\* ---------------------------------- claims about the command-line runner
\* C28: a tile whose process execution raises is reported as the output
\* (tile, exception) and never ends the result loop; the counter counts the
\* outputs taken, one per work tile at most; when the loop ends the counter
\* equals the number of work tiles and every work tile has given exactly
\* one output; main() is left, normally or by an exception, only with the
\* pool closed and joined.
C28_TileErrorsIsolated ==
    /\ \A i \in DOMAIN work_tiles :
          calls_state[i] \in {"IOError", "KeyError"} =>
             /\ \A output \in ready : output.tile = i =>
                   output = [tile |-> i, raised |-> FALSE,
                             value |-> calls_state[i]]
             /\ \A k \in DOMAIN log : log[k][1] = i =>
                   log[k] = <<i, calls_state[i]>>
    /\ mexc \notin {"IOError", "KeyError"}
    /\ counter = Len(log)
    /\ \A k, l \in DOMAIN log : log[k][1] = log[l][1] => k = l
    /\ (mpc \in {"finally", "join", "print", "returned"} /\ mexc = NULL) =>
          /\ counter = Len(work_tiles)
          /\ {log[k][1] : k \in DOMAIN log} = DOMAIN work_tiles
    /\ mpc \in {"try", "loop", "finally"} => pool = "open"
    /\ mpc = "join" => pool = "closed"
    /\ mpc \in {"print", "returned", "raised"} => pool = "joined"

\* two work tiles, the process raised on one and not on the other, and
\* main() took both outputs and returned
C28_Witness ==
    /\ mpc = "returned"
    /\ Len(work_tiles) = 2
    /\ counter = 2
    /\ \E i, j \in DOMAIN work_tiles :
          /\ calls_state[i] = "IOError"
          /\ calls_state[j] = "ok"
          /\ log[1] = <<i, "IOError">>
          /\ log[2] = <<j, "ok">>

(***************************************************************************)
(* Model of get_best_zoom_level (src/mapchete/io/__init__.py).  Lengths    *)
(* are counted in pixel sizes of the deepest zoom the loop tests, so the   *)
(* pixel size of every zoom tested is a whole number (it halves from zoom  *)
(* to zoom); the average resolution is kept as an exact fraction.          *)
(***************************************************************************)

notZoom ==
    <<execVars, tileVars, graphVars, tasksVars, ctorVars, batchVars, cliVars,
      attachVars>>

\* line 51: range(0, 25)
ZoomRangeEnd == 25

RECURSIVE Pow2(_)
Pow2(n) == IF n = 0 THEN 1 ELSE 2 * Pow2(n - 1)

\* tile_pyramid.pixel_x_size(zoom)
PixelXSize(z) == Pow2(ZoomRangeEnd - 1 - z)

\* the extents a raster can have
Extents == {0} \cup {Pow2(e) : e \in 0..ZoomRangeEnd}

\* a <= b for fractions
FractionLeq(a, b) == a[1] * b[2] <= b[1] * a[2]

InitZoom ==
    /\ ExecuteIdle
    /\ TileIdle
    /\ GraphIdle
    /\ TasksIdle
    /\ CtorIdle
    /\ BatchIdle
    /\ CliIdle
    /\ AttachIdle
    /\ x_dif \in Extents
    /\ y_dif \in Extents
    /\ width \in 1..MaxSide
    /\ height \in 1..MaxSide
    /\ avg_resolution = <<0, 1>>
    /\ loop_zoom = 0
    /\ best_zoom = NoZoom
    /\ zpc = "resolution"

\* lines 45-49: (x_dif / width) * (width / size) + (y_dif / height) *
\* (height / size) with size = width + height
AvgResolution == <<x_dif + y_dif, width + height>>

\* lines 43-49
ComputeResolution ==
    /\ zpc = "resolution"
    /\ avg_resolution' = AvgResolution
    /\ loop_zoom' = 0
    /\ zpc' = "loop"
    /\ UNCHANGED <<notZoom, x_dif, y_dif, width, height, best_zoom>>

\* line 52
Fits(z) == FractionLeq(<<PixelXSize(z), 1>>, avg_resolution)

\* lines 51-52: the pixel size of the zoom is above the resolution
NextZoom ==
    /\ zpc = "loop"
    /\ loop_zoom < ZoomRangeEnd
    /\ ~Fits(loop_zoom)
    /\ loop_zoom' = loop_zoom + 1
    /\ UNCHANGED <<notZoom, x_dif, y_dif, width, height, avg_resolution,
                   best_zoom, zpc>>

\* lines 52-53
ReturnZoom ==
    /\ zpc = "loop"
    /\ loop_zoom < ZoomRangeEnd
    /\ Fits(loop_zoom)
    /\ best_zoom' = [kind |-> "return", value |-> loop_zoom - 1]
    /\ zpc' = "done"
    /\ UNCHANGED <<notZoom, x_dif, y_dif, width, height, avg_resolution,
                   loop_zoom>>

\* line 55
RaiseNoZoom ==
    /\ zpc = "loop"
    /\ loop_zoom = ZoomRangeEnd
    /\ best_zoom' = [kind |-> "ValueError", value |-> -1]
    /\ zpc' = "done"
    /\ UNCHANGED <<notZoom, x_dif, y_dif, width, height, avg_resolution,
                   loop_zoom>>

NextZoomLevel ==
    \/ ComputeResolution
    \/ NextZoom
    \/ ReturnZoom
    \/ RaiseNoZoom

SpecZoom == InitZoom /\ [][NextZoomLevel]_vars

\* ---------------------------------- claims about get_best_zoom_level
\* the pixel size of zoom z is greater than the average resolution of the
\* raster
Coarser(z) ==
    ~FractionLeq(<<PixelXSize(z), 1>>, <<x_dif + y_dif, width + height>>)

\* C29 as claimed: get_best_zoom_level returns the largest zoom whose pixel
\* size is greater than the average resolution of the raster, always a
\* zoom level of the pyramid (>= 0), and raises ValueError when no zoom of
\* 0..24 has a pixel size at or below the average resolution.
C29_BestZoomIsValidZoom ==
    zpc = "done" =>
        IF \A z \in 0..(ZoomRangeEnd - 1) : Coarser(z)
        THEN best_zoom.kind = "ValueError"
        ELSE /\ best_zoom.kind = "return"
             /\ best_zoom.value >= 0
             /\ Coarser(best_zoom.value)
             /\ \A z \in 0..(ZoomRangeEnd - 1) :
                   Coarser(z) => z <= best_zoom.value

(***************************************************************************)
(* Model of the two code paths that attach the result of a preprocessing   *)
(* task to an input of a TileTask: TileTask.set_preprocessing_task_result  *)
(* and the dependency loop of TileTask._execute                            *)
(* (src/mapchete/processing/tasks.py).  Each is applied to the same        *)
(* dependency key and the same inputs; what it did is the exception it     *)
(* raised, or the (input key, task key) pairs it attached.                 *)
(***************************************************************************)

notAttach ==
    <<execVars, tileVars, graphVars, tasksVars, ctorVars, batchVars, cliVars,
      zoomVars>>

KeyErrorRaised == [raised |-> "KeyError", attached |-> {}]

Attached(pairs) == [raised |-> NULL, attached |-> pairs]

InitAttach ==
    /\ ExecuteIdle
    /\ TileIdle
    /\ GraphIdle
    /\ TasksIdle
    /\ CtorIdle
    /\ BatchIdle
    /\ CliIdle
    /\ ZoomIdle
    /\ self_input \in SUBSET {<<"src1">>, <<"zzz">>}
    /\ dep_key \in Strings
    /\ by_method = NotRun
    /\ by_loop = NotRun
    /\ apc = "none"

\* lines 277-293: set_preprocessing_task_result(task_key, result)
SetPreprocessingTaskResult(input, task_key) ==
    IF ~HasColon(task_key)
    THEN KeyErrorRaised
    ELSE LET inp_key == Split(task_key)[1]
             inp_task_key == Split(task_key)[2]
         IN  IF inp_key \notin input
             THEN KeyErrorRaised
             ELSE Attached({<<inp_key, inp_task_key>>})

\* lines 308-319: the body of the dependency loop for one key
DependencyLoop(input, task_key) ==
    IF StartsWithTileTask(task_key)
    THEN Attached({})
    ELSE IF TaskKey(task_key) = <<>>
    THEN KeyErrorRaised
    ELSE Attached({<<inp, TaskKey(task_key)>> :
                      inp \in {i \in input : i = InpKey(task_key)}})

CallSetPreprocessingTaskResult ==
    /\ by_method = NotRun
    /\ by_method' = SetPreprocessingTaskResult(self_input, dep_key)
    /\ apc' = IF by_loop = NotRun THEN "method" ELSE "both"
    /\ UNCHANGED <<notAttach, self_input, dep_key, by_loop>>

RunDependencyLoop ==
    /\ by_loop = NotRun
    /\ by_loop' = DependencyLoop(self_input, dep_key)
    /\ apc' = IF by_method = NotRun THEN "loop" ELSE "both"
    /\ UNCHANGED <<notAttach, self_input, dep_key, by_method>>

NextAttach ==
    \/ CallSetPreprocessingTaskResult
    \/ RunDependencyLoop

SpecAttach == InitAttach /\ [][NextAttach]_vars

\* lines 61 and 218-219: the id of a task as a dependency key
DependencyKey(id) ==
    IF id[1] = "tile" THEN <<"tile_task">> ELSE <<"src1", ":", "zzz">>

\* ------------------------- claims about attaching preprocessing results
\* C33: in the graph of to_dask_collection a preprocessing task is a
\* dependency only of tasks of the batch right after the preprocessing
\* batch; a tile task of any later batch has only tile tasks as
\* dependencies, and the dependency loop of _execute skips their keys: it
\* attaches nothing to the inputs and raises nothing.
C33_PreprocessingOnlyToNextBatch ==
    \A node \in tasks :
        LET k == BatchOf(node.task)
        IN  /\ \A d \in node.deps :
                  d[1] = "task" => (k > 1 /\ batches[k - 1].kind = "task")
            /\ (node.task.kind = "tile" /\ k > 1
                   /\ batches[k - 1].kind # "task") =>
                  \A d \in node.deps :
                      /\ d[1] = "tile"
                      /\ DependencyLoop({<<"src1">>}, DependencyKey(d)) =
                            Attached({})

\* a tile task of the third batch has run with dependencies, none of them
\* the preprocessing task of the first batch whose bounds it intersects
C33_Witness ==
    /\ Len(batches) = 3
    /\ batches[1].kind = "task"
    /\ \E node \in tasks :
          /\ BatchOf(node.task) = 3
          /\ node.task \in Finished
          /\ node.deps # {}
          /\ \E p \in batches[1].tasks : Overlaps(p, node.task)


\* C34 as claimed: for every dependency key of a preprocessing task,
\* set_preprocessing_task_result and the dependency loop of _execute derive
\* the same (input key, task key) pair, attach to the same input and fail
\* on the same keys.
C34_AttachPathsAgree ==
    (apc = "both" /\ ~StartsWithTileTask(dep_key)) => by_method = by_loop

====
